---- MODULE Spec2Model ----
(***************************************************************************)
(* A model of the Linux sandbox observer, BxlObserver                      *)
(* (Public/Src/Sandbox/Linux/bxl_observer.cpp): the access cache           *)
(* (IsCacheHit), the report channel (SendReport, Send), the file           *)
(* descriptor table (fd_to_path, reset_fd_table_entry, reset_fd_table),    *)
(* the resolution of paths (resolve_path, normalize_path_at) and the       *)
(* reporting operations (report_access, report_access_fd,                  *)
(* report_access_at, report_exec, report_firstAllowWriteCheck).            *)
(***************************************************************************)
EXTENDS Integers, Sequences, FiniteSets, TLC

(***************************************************************************)
(* The threads of the traced program that call into the observer, and the  *)
(* value of cacheMtx_ when no thread owns it.                              *)
(***************************************************************************)
Threads == {1, 2}

NoThread == 0

(***************************************************************************)
(* Event kinds (es_event_type_t), as IsCacheHit distinguishes them.        *)
(***************************************************************************)
\* the case labels that are given the key ES_EVENT_TYPE_NOTIFY_WRITE
WriteLabels ==
    {"TRUNCATE", "SETATTRLIST", "SETEXTATTR", "DELETEEXTATTR", "SETFLAGS",
     "SETOWNER", "SETMODE", "WRITE", "UTIMES", "SETTIME", "SETACL"}

\* the case labels in front of the assignment key = ES_EVENT_TYPE_NOTIFY_STAT
StatLabels ==
    {"GETATTRLIST", "GETEXTATTR", "LISTEXTATTR", "ACCESS", "STAT"}

\* kinds that have no case label of their own and reach the default label
\* (FORK, EXEC and EXIT never get as far as the switch)
OtherKinds == {"FORK", "EXEC", "EXIT", "OPEN", "READLINK"}

EventTypes == WriteLabels \cup StatLabels \cup OtherKinds

\* the primary paths the calls are made with
Paths == {"/p", "/q"}

\* the secondary paths: none, or the second path of a two-path event
SecondPaths == {"", "/s"}

\* the event kinds one run of the traced program uses: any one or two kinds
EventPairs == {{a, b} : a, b \in EventTypes}

\* the event kinds of the runs in which two threads call concurrently
ConcurrentEvents == {{"WRITE", "STAT"}, {"TRUNCATE", "EXEC"}}

VARIABLES
    inputs,      \* what the traced program is in this run: the threads that call
                 \* into the observer, the event kinds they report, __progname,
                 \* getpid() and whether the symbol open was found (real_open)
    disposed_,   \* BxlObserver::disposed_
    cache_,      \* BxlObserver::cache_: coalesced kind -> set of paths
    cacheMtx_,   \* BxlObserver::cacheMtx_: the owning thread, or NoThread
    th,          \* per thread: the position in IsCacheHit, its arguments and
                 \* its result
    nested,      \* the thread whose critical section is interrupted by a handler
                 \* that called IsCacheHit, and what that call returned
    seen,        \* history: the <<event, path>> of the calls that completed the
                 \* critical section while the cache was valid
    fdTable_,    \* BxlObserver::fdTable_: descriptor -> cached path, empty if none
    procFd,      \* the kernel's /proc/self/fd: descriptor -> path, empty if closed
    fdop,        \* the last call on the descriptor table and what it returned
    invalidated, \* history: the descriptors reset since their last fd_to_path
    sent,        \* the last SendReport call: the report, how it ended and the
                 \* calls of write it made
    fatal,       \* _fatal was called: the process is gone
    env,         \* what the observer finds around it: the symbolic links of the
                 \* file system, the mode of the other paths, and whether
                 \* mediation and the monitoring of child processes are on
    rs,          \* the resolve_path call in progress: its buffer, its position
                 \* in the loop and what it has visited and reported
    call,        \* the last call of a reporting operation: its arguments, what
                 \* it did, in order, and what it returned
    ra           \* per thread: the position in report_access of the call the
                 \* thread is making and what its call of HandleEvent found;
                 \* history: the calls that have returned and those denied

cacheVars == <<inputs, disposed_, cache_, cacheMtx_, th, nested, seen>>

ioVars == <<fdTable_, procFd, fdop, invalidated, sent, fatal>>

reportVars == <<env, rs, call, ra>>

vars == <<inputs, disposed_, cache_, cacheMtx_, th, nested, seen,
          fdTable_, procFd, fdop, invalidated, sent, fatal, env, rs, call,
          ra>>

(***************************************************************************)
(* IsCacheHit                                                              *)
(***************************************************************************)
\* EventKey with the label SETACL missing from the WRITE group
EventKey_SetAclUnlisted(event) ==
    IF event \in WriteLabels \ {"SETACL"}
    THEN "WRITE"
    ELSE event

\* the switch that coalesces similar events: the WRITE group ends in a break;
\* the STAT group assigns the key and, having no break, falls through to the
\* default label, which assigns the key again
EventKey(event) ==
    IF event \in WriteLabels
    THEN "WRITE"
    ELSE LET statKey == IF event \in StatLabels THEN "STAT" ELSE event
             \* default: (also reached by falling through)
             defaultKey == event
         IN  defaultKey

\* NeverCache without the test of the second path
NeverCache_OnePathOnly(event, secondPath) ==
    \/ disposed_
    \/ event = "FORK"
    \/ event = "EXEC"
    \/ event = "EXIT"

\* NeverCache without the test of disposed_
NeverCache_DisposedUnchecked(event, secondPath) ==
    \/ Len(secondPath) > 0
    \/ event = "FORK"
    \/ event = "EXEC"
    \/ event = "EXIT"

\* the first test of IsCacheHit: disposed, two paths, or FORK/EXEC/EXIT
NeverCache(event, secondPath) ==
    \/ disposed_
    \/ Len(secondPath) > 0
    \/ event = "FORK"
    \/ event = "EXEC"
    \/ event = "EXIT"

\* a thread outside IsCacheHit.  locked: try_lock_for succeeded in this call;
\* ret: the value returned.  The last three fields observe the call:
\* disposedAtEntry: disposed_ when the call began; mapValid: the critical
\* section ran before the disposal; fresh: no earlier call with this event
\* and path had completed the critical section.
Idle == [pc |-> "idle", event |-> "", path |-> "", secondPath |-> "",
         locked |-> FALSE, ret |-> FALSE,
         disposedAtEntry |-> FALSE, mapValid |-> FALSE, fresh |-> FALSE]

\* a thread enters IsCacheHit: the early return, else the key is computed and
\* the thread goes on to try_lock_for
Enter(t, event, path, secondPath) ==
    /\ t \in inputs.threads
    /\ event \in inputs.events
    /\ th[t].pc = "idle"
    /\ th' = [th EXCEPT ![t] =
                [Idle EXCEPT
                   !.pc = IF NeverCache(event, secondPath) THEN "done" ELSE "trylock",
                   !.event = event, !.path = path, !.secondPath = secondPath,
                   !.disposedAtEntry = disposed_]]
    /\ UNCHANGED <<inputs, disposed_, cache_, cacheMtx_, nested, seen>>
    /\ UNCHANGED ioVars
    /\ UNCHANGED reportVars

\* TryLockAcquired taking the mutex from its owner
TryLockAcquired_Unchecked(t) ==
    /\ th[t].pc = "trylock"
    /\ cacheMtx_' = t
    /\ th' = [th EXCEPT ![t].pc = "critical", ![t].locked = TRUE]
    /\ UNCHANGED <<inputs, disposed_, cache_, nested, seen>>
    /\ UNCHANGED ioVars
    /\ UNCHANGED reportVars

\* cacheMtx_.try_lock_for succeeds: the mutex is free within the timeout
TryLockAcquired(t) ==
    /\ th[t].pc = "trylock"
    /\ cacheMtx_ = NoThread
    /\ cacheMtx_' = t
    /\ th' = [th EXCEPT ![t].pc = "critical", ![t].locked = TRUE]
    /\ UNCHANGED <<inputs, disposed_, cache_, nested, seen>>
    /\ UNCHANGED ioVars
    /\ UNCHANGED reportVars

\* TryLockTimedOut going on into the critical section without the mutex
TryLockTimedOut_GoesOn(t) ==
    /\ th[t].pc = "trylock"
    /\ cacheMtx_ # NoThread
    /\ th' = [th EXCEPT ![t].pc = "critical"]
    /\ UNCHANGED <<inputs, disposed_, cache_, cacheMtx_, nested, seen>>
    /\ UNCHANGED ioVars
    /\ UNCHANGED reportVars

\* cacheMtx_.try_lock_for times out: another thread holds the mutex
TryLockTimedOut(t) ==
    /\ th[t].pc = "trylock"
    /\ cacheMtx_ # NoThread
    /\ th' = [th EXCEPT ![t].pc = "done", ![t].ret = FALSE]
    /\ UNCHANGED <<inputs, disposed_, cache_, cacheMtx_, nested, seen>>
    /\ UNCHANGED ioVars
    /\ UNCHANGED reportVars

\* cache_.find(key) and the insertions: TRUE iff the key was there and the
\* insertion of the path into its set did not take place
CacheLookup(c, key, path) ==
    IF key \notin DOMAIN c
    THEN FALSE
    ELSE path \in c[key]

\* CacheInsert inserting only when the key is not found
CacheInsert_NewKeyOnly(c, key, path) ==
    IF key \notin DOMAIN c
    THEN [k \in DOMAIN c \cup {key} |-> IF k = key THEN {path} ELSE c[k]]
    ELSE c

\* the map after the call: a new set holding the path for a key not found,
\* else the path inserted into the key's set
CacheInsert(c, key, path) ==
    IF key \notin DOMAIN c
    THEN [k \in DOMAIN c \cup {key} |-> IF k = key THEN {path} ELSE c[k]]
    ELSE [c EXCEPT ![key] = c[key] \cup {path}]

\* the critical section and the release of the mutex on return.  Once the
\* observer is disposed the map is no longer valid to access: a call that
\* passed the first test before the disposal may find anything in it.
CriticalSection(t) ==
    /\ th[t].pc = "critical"
    /\ nested.thread # t
    /\ cacheMtx_' = NoThread
    /\ IF disposed_
       THEN /\ \E r \in BOOLEAN :
                  th' = [th EXCEPT ![t].pc = "done", ![t].ret = r]
            /\ cache_' \in {cache_,
                            CacheInsert(cache_, EventKey(th[t].event), th[t].path)}
            /\ seen' = seen
       ELSE /\ th' = [th EXCEPT
                        ![t].pc = "done",
                        ![t].ret = CacheLookup(cache_, EventKey(th[t].event), th[t].path),
                        ![t].mapValid = TRUE,
                        ![t].fresh = <<th[t].event, th[t].path>> \notin seen]
            /\ cache_' = CacheInsert(cache_, EventKey(th[t].event), th[t].path)
            /\ seen' = seen \cup {<<th[t].event, th[t].path>>}
    /\ UNCHANGED <<inputs, disposed_, nested>>
    /\ UNCHANGED ioVars
    /\ UNCHANGED reportVars

\* IsCacheHit returns to its caller
Return(t) ==
    /\ th[t].pc = "done"
    /\ th' = [th EXCEPT ![t] = Idle]
    /\ UNCHANGED <<inputs, disposed_, cache_, cacheMtx_, nested, seen>>
    /\ UNCHANGED ioVars
    /\ UNCHANGED reportVars

\* no handler is running.  how: where the handler's call returned ("early":
\* at the first test, "timeout": at try_lock_for)
NoNested == [thread |-> NoThread, how |-> "", ret |-> FALSE]

\* a handler interrupts thread t inside the critical section and calls
\* IsCacheHit on the same thread: the call returns at the first test, or at
\* try_lock_for, which times out on the mutex the thread already owns
Reenter(t, event, path, secondPath) ==
    /\ event \in inputs.events
    /\ th[t].pc = "critical"
    /\ cacheMtx_ = t
    /\ nested.thread = NoThread
    /\ nested' = [thread |-> t,
                  how |-> IF NeverCache(event, secondPath) THEN "early" ELSE "timeout",
                  ret |-> FALSE]
    /\ UNCHANGED <<inputs, disposed_, cache_, cacheMtx_, th, seen>>
    /\ UNCHANGED ioVars
    /\ UNCHANGED reportVars

\* the handler returns and the interrupted thread goes on
Resume(t) ==
    /\ nested.thread = t
    /\ nested' = NoNested
    /\ UNCHANGED <<inputs, disposed_, cache_, cacheMtx_, th, seen>>
    /\ UNCHANGED ioVars
    /\ UNCHANGED reportVars

\* the observer is disposed (process teardown)
Dispose ==
    /\ ~disposed_
    /\ disposed_' = TRUE
    /\ UNCHANGED <<inputs, cache_, cacheMtx_, th, nested, seen>>
    /\ UNCHANGED ioVars
    /\ UNCHANGED reportVars

CacheInit ==
    /\ disposed_ = FALSE
    /\ cache_ = <<>>
    /\ cacheMtx_ = NoThread
    /\ th = [t \in Threads |-> Idle]
    /\ nested = NoNested
    /\ seen = {}

(***************************************************************************)
(* The file descriptor table                                               *)
(***************************************************************************)
\* capacity of fdTable_
MAX_FD == 2

\* the descriptors the calls are made with: -1, the slots of the table, and
\* MAX_FD, the first descriptor beyond the table
Fds == -1 .. MAX_FD

\* the descriptors the traced program may have open
OpenFds == 0 .. MAX_FD

\* the paths an open descriptor may refer to
LivePaths == {<<"/", "a">>, <<"/", "b">>}

\* read_path_for_fd into a zeroed buffer: readlink of /proc/self/fd/<fd>
\* fills in the path of an open descriptor and fails for any other, leaving
\* the buffer empty
ReadPathForFd(fd) ==
    IF fd \in DOMAIN procFd THEN procFd[fd] ELSE <<>>

\* ResetEntry with the lower test of the range off by one
ResetEntry_SkipsZero(table, fd) ==
    IF fd > 0 /\ fd < MAX_FD
    THEN [table EXCEPT ![fd] = <<>>]
    ELSE table

\* ResetEntry emptying every slot, as reset_fd_table does
ResetEntry_ClearsAll(table, fd) ==
    [s \in DOMAIN table |-> <<>>]

\* the table after reset_fd_table_entry(fd)
ResetEntry(table, fd) ==
    IF fd >= 0 /\ fd < MAX_FD
    THEN [table EXCEPT ![fd] = <<>>]
    ELSE table

\* no call made yet.  turn alternates with every call; queried: the call read
\* /proc/self/fd; stale: the path the slot held when it was reset, if this is
\* the first fd_to_path on the descriptor since
NoFdOp == [turn |-> FALSE, op |-> "", fd |-> -1, ret |-> <<>>,
           queried |-> FALSE, stale |-> <<>>]

\* the mark of a slot not reset since its last fd_to_path
NotReset == <<"-">>

\* fd_to_path(fd) on the table: the path returned, the table left, and
\* whether /proc/self/fd was read.  A descriptor outside the table is read
\* from /proc/self/fd; a slot that holds a path gives it; an empty slot is
\* filled from /proc/self/fd.
fd_to_path(table, fd) ==
    IF fd < 0 \/ fd >= MAX_FD
    THEN [ret |-> ReadPathForFd(fd), table |-> table, queried |-> TRUE]
    ELSE IF Len(table[fd]) > 0
         THEN [ret |-> table[fd], table |-> table, queried |-> FALSE]
         ELSE [ret |-> ReadPathForFd(fd),
               table |-> [table EXCEPT ![fd] = ReadPathForFd(fd)],
               queried |-> TRUE]

\* a caller asks fd_to_path(fd)
FdToPath(fd) ==
    /\ ~fatal
    /\ \E r \in {fd_to_path(fdTable_, fd)} :
          /\ fdop' = [turn |-> ~fdop.turn, op |-> "fd_to_path", fd |-> fd,
                       ret |-> r.ret, queried |-> r.queried,
                       stale |-> IF /\ fd \in DOMAIN invalidated
                                    /\ r.queried
                                    /\ invalidated[fd] # NotReset
                                 THEN invalidated[fd]
                                 ELSE <<>>]
          /\ fdTable_' = r.table
    /\ invalidated' = [s \in DOMAIN invalidated |->
                          IF s = fd THEN NotReset ELSE invalidated[s]]
    /\ UNCHANGED <<procFd, sent, fatal>>
    /\ UNCHANGED cacheVars
    /\ UNCHANGED reportVars

\* reset_fd_table_entry(fd)
ResetFdTableEntry(fd) ==
    /\ ~fatal
    /\ fdTable_' = ResetEntry(fdTable_, fd)
    /\ invalidated' = [s \in DOMAIN invalidated |->
                          IF s = fd THEN fdTable_[s] ELSE invalidated[s]]
    /\ fdop' = [turn |-> ~fdop.turn, op |-> "reset_fd_table_entry", fd |-> fd,
                ret |-> <<>>, queried |-> FALSE, stale |-> <<>>]
    /\ UNCHANGED <<procFd, sent, fatal>>
    /\ UNCHANGED cacheVars
    /\ UNCHANGED reportVars

\* reset_fd_table()
ResetFdTable ==
    /\ ~fatal
    /\ fdTable_' = [i \in 0 .. MAX_FD - 1 |-> <<>>]
    /\ invalidated' = [s \in DOMAIN invalidated |-> fdTable_[s]]
    /\ fdop' = [turn |-> ~fdop.turn, op |-> "reset_fd_table", fd |-> -1,
                ret |-> <<>>, queried |-> FALSE, stale |-> <<>>]
    /\ UNCHANGED <<procFd, sent, fatal>>
    /\ UNCHANGED cacheVars
    /\ UNCHANGED reportVars

\* the traced program opens, closes or redirects a descriptor: the kernel's
\* mapping changes, and the observer is not told
KernelRemap(fd, path) ==
    /\ ~fatal
    /\ procFd[fd] # path
    /\ procFd' = [procFd EXCEPT ![fd] = path]
    /\ UNCHANGED <<fdTable_, fdop, invalidated, sent, fatal>>
    /\ UNCHANGED cacheVars
    /\ UNCHANGED reportVars

(***************************************************************************)
(* Character strings.  A string is a sequence of runs, a run being a       *)
(* character and the number of times it is repeated, so that a path of     *)
(* PATH_MAX characters stays small.                                        *)
(***************************************************************************)
\* n copies of the character c
Rep(c, n) == IF n > 0 THEN <<[ch |-> c, n |-> n]>> ELSE <<>>

\* the string of the characters of the tuple t
Lit(t) == [i \in 1 .. Len(t) |-> [ch |-> t[i], n |-> 1]]

\* strlen
RECURSIVE StrLen(_)
StrLen(s) == IF s = <<>> THEN 0 ELSE s[1].n + StrLen(Tail(s))

\* the first k characters of s (all of s if it has fewer)
RECURSIVE Take(_, _)
Take(s, k) ==
    IF k <= 0 \/ s = <<>>
    THEN <<>>
    ELSE IF s[1].n >= k
         THEN Rep(s[1].ch, k)
         ELSE <<s[1]>> \o Take(Tail(s), k - s[1].n)

LastChar(s) == s[Len(s)].ch

\* the terminating and the padding character of the C strings
NUL == "NUL"

DigitChars == <<"0", "1", "2", "3", "4", "5", "6", "7", "8", "9">>

\* the conversion %d
RECURSIVE Decimal(_)
Decimal(n) ==
    IF n < 0
    THEN Rep("-", 1) \o Decimal(-n)
    ELSE IF n < 10
         THEN Rep(DigitChars[n + 1], 1)
         ELSE Decimal(n \div 10) \o Rep(DigitChars[(n % 10) + 1], 1)

(***************************************************************************)
(* SendReport and Send                                                     *)
(***************************************************************************)
\* <limits.h>: the size up to which a write to a pipe is atomic
PIPE_BUF == 4096

\* <limits.h>: the size of the path buffers, report.path among them
PATH_MAX == 4096

\* const int PrefixLength = sizeof(uint)
PrefixLength == 4

\* int maxMessageLength = PIPE_BUF - PrefixLength
maxMessageLength == PIPE_BUF - PrefixLength

\* the operations of the reports: the one SendReport drops and two others;
\* code stands for the value of the enumerator, which %d prints
Operations ==
    {[tag |-> "kOpProcessTreeCompleted", code |-> 3],
     [tag |-> "kOpFirstAllowWriteCheckInProcess", code |-> 27]}

\* the lengths of report.path: short ones, the lengths at which the record
\* comes to fill the buffer, and the longest the field holds
PathLens == {1, 2} \cup (PIPE_BUF - 28 .. PIPE_BUF - 23) \cup {PATH_MAX - 1}

\* a path of n characters
PathOfLen(n) == Rep("/", 1) \o Rep("a", n - 1)

\* the access reports handed to SendReport
Reports ==
    [operation : Operations,
     requestedAccess : {2},
     status : {1},
     reportExplicitly : {1},
     error : {0, 13},
     path : {PathOfLen(n) : n \in PathLens},
     isDirectory : {0}]

\* the text snprintf is asked to produce: "%s|%d|%d|%d|%d|%d|%d|%s|%d\n" of
\* __progname, getpid() and the fields of the report
Formatted(progname, pid, report) ==
    progname \o Rep("|", 1) \o Decimal(pid) \o Rep("|", 1)
    \o Decimal(report.requestedAccess) \o Rep("|", 1)
    \o Decimal(report.status) \o Rep("|", 1)
    \o Decimal(report.reportExplicitly) \o Rep("|", 1)
    \o Decimal(report.error) \o Rep("|", 1)
    \o Decimal(report.operation.code) \o Rep("|", 1)
    \o report.path \o Rep("|", 1)
    \o Decimal(report.isDirectory) \o Rep("\n", 1)

\* snprintf(area, size, ...) into a zeroed area of size bytes: at most
\* size - 1 characters are stored, the rest stays NUL; the value returned is
\* the length of the whole text
Snprintf(text, size) ==
    [ret  |-> StrLen(text),
     area |-> Take(text, size - 1)
              \o Rep(NUL, size - StrLen(Take(text, size - 1)))]

\* MessageTruncated testing for a text longer than the area
MessageTruncated_Greater(numWritten) == numWritten > maxMessageLength

\* if (numWritten == maxMessageLength)
MessageTruncated(numWritten) == numWritten = maxMessageLength

\* *(uint*)(buffer) = numWritten: the four bytes, least significant first
PrefixBytes(n) ==
    <<n % 256, (n \div 256) % 256, (n \div 65536) % 256, (n \div 16777216) % 256>>

\* MessageSize without the prefix
MessageSize_TextOnly(numWritten) == numWritten

\* the size handed to Send: numWritten + PrefixLength
MessageSize(numWritten) == numWritten + PrefixLength

\* if (bufsiz > PIPE_BUF)
TooBig(bufsiz) == bufsiz > PIPE_BUF

\* if (numWritten < bufsiz), ssize_t against size_t: the signed operand is
\* converted to unsigned, which turns a negative value into one above every
\* size
ShortWrite(numWritten, bufsiz) ==
    IF numWritten < 0 THEN FALSE ELSE numWritten < bufsiz

\* what real_write may return for a request of bufsiz bytes: -1, fewer bytes
\* than asked for, or all of them
WriteKinds == {"error", "short", "all"}

RealWrite(kind, bufsiz) ==
    CASE kind = "error" -> -1
      [] kind = "short" -> bufsiz - 1
      [] OTHER -> bufsiz

\* Send closing logFd without a reset of its table entry
Send_ClosesOnly(buf, bufsiz, logFd, written) ==
    IF ~inputs.realOpen \/ TooBig(bufsiz) \/ logFd = -1
    THEN [outcome |-> "fatal", writes |-> <<>>, reset |-> FALSE,
          after |-> <<>>]
    ELSE LET w == [fd |-> logFd,
                   prefix |-> SubSeq(buf.prefix, 1, PrefixLength),
                   text |-> Take(buf.text, bufsiz - PrefixLength),
                   count |-> bufsiz,
                   result |-> written]
         IN  IF ShortWrite(written, bufsiz)
             THEN [outcome |-> "fatal", writes |-> <<w>>, reset |-> FALSE,
                   after |-> <<>>]
             ELSE [outcome |-> "true", writes |-> <<w>>, reset |-> FALSE,
                   after |-> <<"real_close">>]

\* Send(buf, bufsiz), real_open returning logFd and real_write returning
\* written: how it ends, the call of write it makes, whether it resets the
\* table entry of logFd, and the calls it makes after the write
Send(buf, bufsiz, logFd, written) ==
    IF ~inputs.realOpen \/ TooBig(bufsiz) \/ logFd = -1
    THEN [outcome |-> "fatal", writes |-> <<>>, reset |-> FALSE,
          after |-> <<>>]
    ELSE LET w == [fd |-> logFd,
                   prefix |-> SubSeq(buf.prefix, 1, PrefixLength),
                   text |-> Take(buf.text, bufsiz - PrefixLength),
                   count |-> bufsiz,
                   result |-> written]
         IN  IF ShortWrite(written, bufsiz)
             THEN [outcome |-> "fatal", writes |-> <<w>>, reset |-> FALSE,
                   after |-> <<>>]
             ELSE [outcome |-> "true", writes |-> <<w>>, reset |-> TRUE,
                   after |-> <<"reset_fd_table_entry", "real_close">>]

\* SendReport(report): the report of a completed process tree is dropped;
\* any other is formatted behind the prefix and sent.  real_open returns the
\* descriptor logFd, which is not open, or -1; real_write returns as wr says.
\* (p: what snprintf left; r: how Send ended; turn alternates with every
\* call.)
SendReport(report, logFd, wr) ==
    /\ logFd = -1 \/ ReadPathForFd(logFd) = <<>>
    /\ IF report.operation.tag = "kOpProcessTreeCompleted"
       THEN /\ sent' = [called |-> TRUE, turn |-> ~sent.turn,
                        report |-> report, outcome |-> "true",
                        writes |-> <<>>, logFd |-> -1, after |-> <<>>]
            /\ UNCHANGED <<fdTable_, fdop, invalidated, fatal>>
       ELSE \E p \in {Snprintf(Formatted(inputs.progname, inputs.pid, report),
                               maxMessageLength)} :
              IF MessageTruncated(p.ret)
              THEN /\ sent' = [called |-> TRUE, turn |-> ~sent.turn,
                               report |-> report, outcome |-> "fatal",
                               writes |-> <<>>, logFd |-> -1, after |-> <<>>]
                   /\ fatal' = TRUE
                   /\ UNCHANGED <<fdTable_, fdop, invalidated>>
              ELSE \E r \in {Send([prefix |-> PrefixBytes(p.ret), text |-> p.area],
                                  MessageSize(p.ret), logFd,
                                  RealWrite(wr, MessageSize(p.ret)))} :
                     /\ sent' = [called |-> TRUE, turn |-> ~sent.turn,
                                 report |-> report, outcome |-> r.outcome,
                                 writes |-> r.writes, logFd |-> logFd,
                                 after |-> r.after]
                     /\ fatal' = (r.outcome = "fatal")
                     /\ IF r.reset
                        THEN /\ fdTable_' = ResetEntry(fdTable_, logFd)
                             /\ invalidated' =
                                  [s \in DOMAIN invalidated |->
                                      IF s = logFd THEN fdTable_[s]
                                      ELSE invalidated[s]]
                             /\ fdop' = [turn |-> ~fdop.turn,
                                         op |-> "reset_fd_table_entry",
                                         fd |-> logFd, ret |-> <<>>,
                                         queried |-> FALSE, stale |-> <<>>]
                        ELSE UNCHANGED <<fdTable_, fdop, invalidated>>
    /\ UNCHANGED procFd
    /\ UNCHANGED cacheVars

\* a caller sends a report
SendReportCall(report, logFd, wr) ==
    /\ ~fatal
    /\ SendReport(report, logFd, wr)
    /\ UNCHANGED reportVars

NoReport == [called |-> FALSE, turn |-> FALSE]

IOInit ==
    /\ fdTable_ = [i \in 0 .. MAX_FD - 1 |-> <<>>]
    /\ procFd = [i \in OpenFds |-> <<>>]
    /\ fdop = NoFdOp
    /\ invalidated = [i \in 0 .. MAX_FD - 1 |-> NotReset]
    /\ sent = NoReport
    /\ fatal = FALSE

(***************************************************************************)
(* Paths as C strings: the sequence of the characters in front of the      *)
(* terminating NUL.  Offsets count from 0, as the pointers of the code do.  *)
(***************************************************************************)
\* the character at offset i of the string buf, NUL at its end
CharAt(buf, i) == IF i < Len(buf) THEN buf[i + 1] ELSE NUL

\* shift_left(str, n), str being offset from of buf: the characters from
\* there up to the NUL, the NUL included, move n places down
shift_left(buf, from, n) ==
    SubSeq(buf, 1, from - n) \o SubSeq(buf, from + 1, Len(buf))

\* find_prev_slash(pStr), pStr being offset i of buf: the offset of the
\* nearest '/' below i
RECURSIVE find_prev_slash(_, _)
find_prev_slash(buf, i) ==
    IF buf[i] = "/" THEN i - 1 ELSE find_prev_slash(buf, i - 1)

(***************************************************************************)
(* What the observer finds around it                                       *)
(***************************************************************************)
\* <sys/stat.h>: the file types of a mode
S_IFIFO == 4096

S_IFDIR == 16384

S_IFREG == 32768

S_IFLNK == 40960

\* mode & S_IFMT, S_IFMT being 0170000
FileType(mode) == (mode % 65536) - (mode % 4096)

S_ISDIR(mode) == FileType(mode) = S_IFDIR

S_ISREG(mode) == FileType(mode) = S_IFREG

S_ISLNK(mode) == FileType(mode) = S_IFLNK

\* real_readlink fails: the path is not a symbolic link
NotALink == <<>>

\* real_readlink(path): the target of the symbolic link, or NotALink
Readlink(links, path) ==
    IF path \in DOMAIN links THEN links[path] ELSE NotALink

\* get_mode(path): the mode of the path, 0 if it cannot be determined
GetMode(path) ==
    IF path \in DOMAIN env.links THEN S_IFLNK ELSE env.st_mode

\* no symbolic links, mediation and monitoring on
NoEnv == [links |-> <<>>, st_mode |-> S_IFREG, enabled |-> TRUE,
          monitoring |-> TRUE]

(***************************************************************************)
(* IsCacheHit and report_access as one step of a single caller             *)
(***************************************************************************)
\* IsCacheHit(event, path, secondPath) on the map c, run from its first test
\* to its return with no other call in between: what it returns and the map
\* it leaves
IsCacheHit(c, event, path, secondPath) ==
    IF NeverCache(event, secondPath) \/ cacheMtx_ # NoThread
    THEN [ret |-> FALSE, cache |-> c]
    ELSE [ret |-> CacheLookup(c, EventKey(event), path),
          cache |-> CacheInsert(c, EventKey(event), path)]

\* AccessCheckResult::Invalid(), the value of sNotChecked
sNotChecked == "NotChecked"

\* what HandleEvent may return
Verdicts == {"Allow", "Deny", sNotChecked}

\* the observer as a reporting operation finds it and, while the operation
\* runs, what it has done so far.  trace: the calls of IsCacheHit and what
\* they returned; handled: the events handed to HandleEvent; lookups: the
\* calls of fd_to_path; resolved: the calls of resolve_path; result: the
\* value of the last report_access; fatal: _fatal was called.
Observer ==
    [cache |-> cache_, table |-> fdTable_, trace |-> <<>>, handled |-> <<>>,
     lookups |-> <<>>, resolved |-> <<>>, result |-> sNotChecked,
     fatal |-> FALSE]

\* the cache check of report_access: IsCacheHit if checkCache, which leaves
\* "Hit" or "Miss" in result
CheckCache(o, event, checkCache) ==
    IF checkCache
    THEN LET hit == IsCacheHit(o.cache, event.eventType, event.path,
                               event.secondPath)
         IN  [o EXCEPT !.cache = hit.cache,
                       !.trace = Append(@, [eventType |-> event.eventType,
                                            path |-> event.path,
                                            hit |-> hit.ret]),
                       !.result = IF hit.ret THEN "Hit" ELSE "Miss"]
    ELSE [o EXCEPT !.result = "Miss"]

\* Mediate with the test of IsEnabled() left out
Mediate_Always(o, event, verdict) ==
    [o EXCEPT !.handled = Append(@, event), !.result = verdict]

\* the engine is asked only if IsEnabled(); verdict is what HandleEvent
\* returns
Mediate(o, event, verdict) ==
    IF env.enabled
    THEN [o EXCEPT !.handled = Append(@, event), !.result = verdict]
    ELSE [o EXCEPT !.result = sNotChecked]

\* report_access(syscallName, event, checkCache)
ReportAccessEvent(o, event, checkCache, verdict) ==
    LET checked == CheckCache(o, event, checkCache)
    IN  IF checked.result = "Hit"
        THEN [checked EXCEPT !.result = sNotChecked]
        ELSE Mediate(checked, event, verdict)

\* report_access(syscallName, eventType, reportPath, secondPath, mode): the
\* cache is checked; on a hit nothing more is done; else the mode is
\* computed if it is 0 and the event goes to the overload above, which is
\* told not to check again
ReportAccess(o, eventType, reportPath, secondPath, mode, verdict) ==
    LET event == [eventType |-> eventType, path |-> reportPath,
                  secondPath |-> secondPath,
                  mode |-> IF mode = 0 THEN GetMode(reportPath) ELSE mode]
        checked == CheckCache(o, event, TRUE)
    IN  IF checked.result = "Hit"
        THEN [checked EXCEPT !.result = sNotChecked]
        ELSE ReportAccessEvent(checked, event, FALSE, verdict)

(***************************************************************************)
(* resolve_path                                                            *)
(***************************************************************************)
\* no resolve_path call has been made
NoResolve == [pc |-> "idle"]

\* resolve_path(fullpath, followFinalSymlink) up to its loop: it returns at
\* once unless the path is absolute.  pFullpath is an offset into fullpath;
\* readlinks lists the paths reported as read links; o is the observer.
ResolveBegin(o, fullpath, followFinalSymlink) ==
    [pc |-> IF CharAt(fullpath, 0) # "/" THEN "done" ELSE "loop",
     input |-> fullpath,
     fullpath |-> fullpath,
     pFullpath |-> 1,
     followFinalSymlink |-> followFinalSymlink,
     visited |-> {},
     readlinks |-> <<>>,
     o |-> o]

\* JoinRest copying the rest of the path whole
JoinRest_KeepsSlash(target, ch, rest) == target \o rest

\* the strcpy behind the target of the link: the rest of the path, less its
\* leading '/' if the target ends in one
JoinRest(target, ch, rest) ==
    target \o (IF target[Len(target)] = "/" /\ ch = "/" THEN Tail(rest) ELSE rest)

\* StopAtVisited with the report made in front of the test of visited
StopAtVisited_ReportsFirst(s, current) ==
    [s EXCEPT !.pc = "done", !.fullpath = current,
              !.readlinks = Append(@, current),
              !.o = ReportAccess(@, "READLINK", current, <<>>, 0, "Allow")]

\* if (!visited.insert(fullpath).second) break: the loop ends with the path
\* left cut at pFullpath and nothing reported
StopAtVisited(s, current) ==
    [s EXCEPT !.pc = "done", !.fullpath = current]

\* the second half of an iteration: readlink of the path cut at pFullpath,
\* for an intermediate directory and, if followFinalSymlink, the whole path
ResolveLink(s) ==
    LET buf == s.fullpath
        p == s.pFullpath
        ch == CharAt(buf, p)
        current == SubSeq(buf, 1, p)
        target == IF ch = "/" \/ (ch = NUL /\ s.followFinalSymlink)
                  THEN Readlink(env.links, current)
                  ELSE NotALink
        rest == SubSeq(buf, p + 1, Len(buf))
        reported == [s EXCEPT
                       !.visited = @ \cup {current},
                       !.readlinks = Append(@, current),
                       !.o = ReportAccess(@, "READLINK", current, <<>>, 0, "Allow")]
    IN  IF target = NotALink
        THEN IF ch = NUL
             THEN [s EXCEPT !.pc = "done"]
             ELSE [s EXCEPT !.pFullpath = p + 1]
        ELSE IF current \in s.visited
             THEN StopAtVisited(s, current)
             ELSE IF target[1] = "/"
                  THEN [reported EXCEPT
                          !.fullpath = JoinRest(target, ch, rest),
                          !.pFullpath = 1]
                  ELSE [reported EXCEPT
                          !.fullpath = SubSeq(buf, 1, find_prev_slash(buf, p) + 1)
                                       \o JoinRest(target, ch, rest),
                          !.pFullpath = find_prev_slash(buf, p) + 1]

\* one iteration of the loop: at a '/', an empty segment, a "." or a ".."
\* in front of it is cut out; else the iteration goes on to readlink
ResolveStep(s) ==
    LET buf == s.fullpath
        p == s.pFullpath
        ch == CharAt(buf, p)
        pPrevSlash == find_prev_slash(buf, p)
        parentDirLen == p - pPrevSlash - 1
        pPrevPrev == IF pPrevSlash > 0
                     THEN find_prev_slash(buf, pPrevSlash)
                     ELSE pPrevSlash
    IN  IF ch = "/" /\ parentDirLen = 0
        THEN [s EXCEPT !.fullpath = shift_left(buf, p + 1, 1)]
        ELSE IF ch = "/" /\ parentDirLen = 1 /\ CharAt(buf, p - 1) = "."
        THEN [s EXCEPT !.fullpath = shift_left(buf, p + 1, 2),
                       !.pFullpath = p - 1]
        ELSE IF /\ ch = "/"
                /\ parentDirLen = 2
                /\ CharAt(buf, p - 1) = "."
                /\ CharAt(buf, p - 2) = "."
        THEN [s EXCEPT !.fullpath = shift_left(buf, p + 1, p - pPrevPrev),
                       !.pFullpath = pPrevPrev + 1]
        ELSE ResolveLink(s)

\* the loop run to its end
RECURSIVE ResolveRun(_)
ResolveRun(s) == IF s.pc = "done" THEN s ELSE ResolveRun(ResolveStep(s))

\* resolve_path(fullpath, followFinalSymlink)
resolve_path(o, fullpath, followFinalSymlink) ==
    ResolveRun(ResolveBegin(o, fullpath, followFinalSymlink))

(***************************************************************************)
(* The reporting operations                                                *)
(***************************************************************************)
\* <fcntl.h>: the directory descriptor that stands for the working directory
AT_FDCWD == -100

\* <fcntl.h>: the open flag O_NOFOLLOW (0400000)
O_NOFOLLOW == 131072

\* value & O_NOFOLLOW is not 0
HasNoFollow(value) == (value \div O_NOFOLLOW) % 2 = 1

\* the argument NULL where a path is expected
NullPath == <<"NULL">>

\* getcwd fails
NoCwd == <<>>

\* is_non_file with S_ISLNK left out
is_non_file_LinkUnlisted(mode) ==
    mode # 0 /\ ~S_ISDIR(mode) /\ ~S_ISREG(mode)

\* is_non_file(mode)
is_non_file(mode) ==
    mode # 0 /\ ~S_ISDIR(mode) /\ ~S_ISREG(mode) /\ ~S_ISLNK(mode)

\* the observer after the call fd_to_path(fd), which returned f
LookedUp(o, fd, f) ==
    [o EXCEPT !.table = f.table,
              !.lookups = Append(@, [fd |-> fd, queried |-> f.queried])]

\* bool followFinalSymlink = (oflags & O_NOFOLLOW) == 0
FollowFinal(oflags) == ~HasNoFollow(oflags)

\* normalize_path_at(dirfd, pathname, oflags), getcwd giving cwd: the
\* observer left and the path returned.  With no pathname the path of dirfd
\* is returned; a relative pathname is put behind the working directory or
\* the path of dirfd, neither of which may be empty; the path is resolved.
normalize_path_at(o, dirfd, pathname, oflags, cwd) ==
    LET f == fd_to_path(o.table, dirfd)
        relative == CharAt(pathname, 0) # "/"
        viaFd == relative /\ dirfd # AT_FDCWD
        dirPath == IF dirfd = AT_FDCWD THEN cwd ELSE f.ret
        o1 == IF viaFd THEN LookedUp(o, dirfd, f) ELSE o
        fullpath == IF relative
                    THEN dirPath \o <<"/">> \o pathname
                    ELSE pathname
        r == resolve_path(o1, fullpath, FollowFinal(oflags))
    IN  IF pathname = NullPath
        THEN [o |-> LookedUp(o, dirfd, f), path |-> f.ret]
        ELSE IF relative /\ Len(dirPath) <= 0
        THEN [o |-> [o1 EXCEPT !.fatal = TRUE], path |-> <<>>]
        ELSE [o |-> [r.o EXCEPT
                       !.resolved = Append(@, [fullpath |-> fullpath,
                                               followFinalSymlink |->
                                                   r.followFinalSymlink,
                                               result |-> r.fullpath])],
              path |-> r.fullpath]

\* normalize_path(pathname, oflags): normalize_path_at with AT_FDCWD
normalize_path(o, pathname, oflags, cwd) ==
    normalize_path_at(o, AT_FDCWD, pathname, oflags, cwd)

\* report_access(syscallName, eventType, pathname, mode, flags)
ReportAccessPathname(o, eventType, pathname, mode, flags, cwd, verdict) ==
    LET n == normalize_path(o, pathname, flags, cwd)
    IN  IF n.o.fatal
        THEN n.o
        ELSE ReportAccess(n.o, eventType, n.path, <<>>, mode, verdict)

\* report_access_fd(syscallName, eventType, fd), get_mode(fd) giving mode
report_access_fd(o, eventType, fd, mode, verdict) ==
    IF is_non_file(mode)
    THEN [o EXCEPT !.result = sNotChecked]
    ELSE LET f == fd_to_path(o.table, fd)
         IN  ReportAccess(LookedUp(o, fd, f), eventType, f.ret, <<>>, mode,
                          verdict)

\* report_access_at(syscallName, eventType, dirfd, pathname, flags),
\* get_mode(dirfd) giving dirMode and getcwd giving cwd.  The last call
\* hands flags where the callee expects the mode and the mode where it
\* expects the flags.
report_access_at(o, eventType, dirfd, pathname, flags, dirMode, cwd, verdict) ==
    LET f == fd_to_path(o.table, dirfd)
        mode == IF dirfd = AT_FDCWD THEN 0 ELSE dirMode
        dirPath == IF dirfd = AT_FDCWD THEN cwd ELSE f.ret
        o1 == IF dirfd = AT_FDCWD THEN o ELSE LookedUp(o, dirfd, f)
        fullpath == dirPath \o <<"/">> \o pathname
    IN  IF CharAt(pathname, 0) = "/"
        THEN ReportAccessPathname(o, eventType, pathname, 0, flags, cwd, verdict)
        ELSE IF dirfd = AT_FDCWD /\ cwd = NoCwd
        THEN [o EXCEPT !.result = sNotChecked]
        ELSE IF dirfd # AT_FDCWD /\ is_non_file(mode)
        THEN [o EXCEPT !.result = sNotChecked]
        ELSE IF Len(dirPath) <= 0
        THEN [o1 EXCEPT !.fatal = TRUE]
        ELSE ReportAccessPathname(o1, eventType, fullpath, flags, mode, cwd,
                                  verdict)

\* ReportExecBody reporting the resolved file first
ReportExecBody_ResolvedFirst(o, procName, file, cwd, verdict) ==
    LET first == ReportAccessPathname(o, "EXEC", file, 0, 0, cwd, verdict)
    IN  IF first.fatal
        THEN first
        ELSE ReportAccess(first, "EXEC", procName, <<>>, 0, verdict)

\* the two reports of report_exec: procName as it is, then file
ReportExecBody(o, procName, file, cwd, verdict) ==
    LET first == ReportAccess(o, "EXEC", procName, <<>>, 0, verdict)
    IN  ReportAccessPathname(first, "EXEC", file, 0, 0, cwd, verdict)

\* report_exec(syscallName, procName, file)
report_exec(o, procName, file, cwd, verdict) ==
    IF env.monitoring
    THEN ReportExecBody(o, procName, file, cwd, verdict)
    ELSE o

(***************************************************************************)
(* The reporting operations as steps of their caller                       *)
(***************************************************************************)
\* what a reporting operation leaves behind it: the cache, the descriptor
\* table and, if it ended in _fatal, the end of the process
Leaves(o) ==
    /\ cache_' = o.cache
    /\ fdTable_' = o.table
    /\ fatal' = o.fatal
    /\ UNCHANGED <<inputs, disposed_, cacheMtx_, th, nested, seen>>
    /\ UNCHANGED <<procFd, fdop, invalidated, sent>>
    /\ UNCHANGED <<env, rs, ra>>

\* report_access(syscallName, eventType, reportPath, secondPath, mode)
ReportAccessCall(eventType, reportPath, secondPath, mode, verdict) ==
    /\ ~fatal
    /\ \E o \in {ReportAccess(Observer, eventType, reportPath, secondPath,
                              mode, verdict)} :
          /\ call' = [op |-> "report_access", eventType |-> eventType,
                      path |-> reportPath, secondPath |-> secondPath,
                      mode |-> mode, checkCache |-> TRUE,
                      verdict |-> verdict, o |-> o]
          /\ Leaves(o)

\* report_access(syscallName, event, checkCache)
ReportAccessEventCall(eventType, path, secondPath, mode, checkCache, verdict) ==
    /\ ~fatal
    /\ \E o \in {ReportAccessEvent(Observer,
                                   [eventType |-> eventType, path |-> path,
                                    secondPath |-> secondPath, mode |-> mode],
                                   checkCache, verdict)} :
          /\ call' = [op |-> "report_access_event", eventType |-> eventType,
                      path |-> path, secondPath |-> secondPath,
                      mode |-> mode, checkCache |-> checkCache,
                      verdict |-> verdict, o |-> o]
          /\ Leaves(o)

\* report_exec(syscallName, procName, file)
ReportExec(procName, file, cwd, verdict) ==
    /\ ~fatal
    /\ \E o \in {report_exec(Observer, procName, file, cwd, verdict)} :
          /\ call' = [op |-> "report_exec", procName |-> procName,
                      file |-> file, cwd |-> cwd, verdict |-> verdict, o |-> o]
          /\ Leaves(o)

\* report_access_fd(syscallName, eventType, fd), get_mode(fd) giving mode
ReportAccessFd(eventType, fd, mode, verdict) ==
    /\ ~fatal
    /\ \E o \in {report_access_fd(Observer, eventType, fd, mode, verdict)} :
          /\ call' = [op |-> "report_access_fd", eventType |-> eventType,
                      fd |-> fd, mode |-> mode, verdict |-> verdict, o |-> o]
          /\ Leaves(o)

\* report_access_at(syscallName, eventType, dirfd, pathname, flags),
\* get_mode(dirfd) giving dirMode and getcwd giving cwd
ReportAccessAt(eventType, dirfd, pathname, flags, dirMode, cwd, verdict) ==
    /\ ~fatal
    /\ \E o \in {report_access_at(Observer, eventType, dirfd, pathname, flags,
                                  dirMode, cwd, verdict)} :
          /\ call' = [op |-> "report_access_at", eventType |-> eventType,
                      dirfd |-> dirfd, pathname |-> pathname, flags |-> flags,
                      dirMode |-> dirMode, cwd |-> cwd, verdict |-> verdict,
                      o |-> o]
          /\ Leaves(o)

\* normalize_path_at(dirfd, pathname, oflags), getcwd giving cwd
NormalizePathAt(dirfd, pathname, oflags, cwd) ==
    /\ ~fatal
    /\ \E n \in {normalize_path_at(Observer, dirfd, pathname, oflags, cwd)} :
          /\ call' = [op |-> "normalize_path_at", dirfd |-> dirfd,
                      pathname |-> pathname, flags |-> oflags, cwd |-> cwd,
                      path |-> n.path, o |-> n.o]
          /\ Leaves(n.o)

\* the enumerators report_firstAllowWriteCheck fills into its report
FileAccessStatus_Allowed == 1

FileAccessStatus_Denied == 2

RequestedAccess_Write == 2

ReportLevel_Report == 1

\* FileExists taking a directory for a file
FileExists_AnyType(mode) == mode # 0

\* bool fileExists = mode != 0 && !S_ISDIR(mode)
FileExists(mode) == mode # 0 /\ ~S_ISDIR(mode)

\* report_firstAllowWriteCheck(fullPath), get_mode(fullPath) giving mode:
\* the reports it hands to SendReport, one after the other, and the
\* AccessCheckResult it returns if SendReport lets it
report_firstAllowWriteCheck(fullPath, mode) ==
    LET fileExists == FileExists(mode)
        report ==
            [operation |-> CHOOSE op \in Operations :
                               op.tag = "kOpFirstAllowWriteCheckInProcess",
             requestedAccess |-> RequestedAccess_Write,
             status |-> IF fileExists THEN FileAccessStatus_Denied
                        ELSE FileAccessStatus_Allowed,
             reportExplicitly |-> ReportLevel_Report,
             error |-> 0,
             path |-> Take(Lit(fullPath), PATH_MAX - 1),
             isDirectory |-> IF S_ISDIR(mode) THEN 1 ELSE 0]
    IN  [sends |-> <<report>>,
         result |-> [access |-> RequestedAccess_Write,
                     action |-> IF fileExists THEN "Deny" ELSE "Allow",
                     level |-> ReportLevel_Report]]

\* a caller asks report_firstAllowWriteCheck(fullPath); real_open returns
\* logFd and real_write returns as wr says.  The call returns unless
\* SendReport ended in _fatal.
ReportFirstAllowWriteCheck(fullPath, mode, logFd, wr) ==
    /\ ~fatal
    /\ \E r \in {report_firstAllowWriteCheck(fullPath, mode)} :
          /\ SendReport(r.sends[1], logFd, wr)
          /\ call' = [op |-> "report_firstAllowWriteCheck",
                      path |-> fullPath, mode |-> mode, sends |-> r.sends,
                      sentAt |-> sent'.turn, returned |-> ~fatal',
                      result |-> r.result]
    /\ UNCHANGED <<env, rs, ra>>

\* <sys/stat.h>: the file type of a socket
S_IFSOCK == 49152

\* what get_mode gives for a descriptor: 0 if fstat fails, else the type of
\* the file and its permission bits
FdModes ==
    {0, S_IFREG + 420, S_IFDIR + 493, S_IFLNK + 511, S_IFIFO + 384,
     S_IFSOCK + 493}

\* the flags of the *at calls: none, O_NOFOLLOW, O_NOFOLLOW with O_WRONLY
AtFlags == {0, O_NOFOLLOW, O_NOFOLLOW + 1}

\* the paths given to the *at calls: absolute and relative
AtPathnames == {<<"/", "a">>, <<"a">>}

\* the event kinds reported: one that is cached and one that never is
ReportEvents == {"OPEN", "EXEC"}

\* the paths reported
ReportPaths == {<<"/", "a">>, <<"/", "b">>}

\* the process names and the files of the exec reports: a bare name, a
\* path that may be a link, a path below it
ExecNames == {<<"a">>, <<"/", "a">>}

ExecFiles == {<<"a">>, <<"/", "a">>, <<"/", "a", "/", "b">>}

\* what getcwd gives: the directory /b, or a failure
Cwds == {<<"/", "b">>, NoCwd}

\* the file systems of the runs that report: without links, with /a a link
\* to /b, and with /b/a a link to /a
ReportLinks ==
    {<<>>,
     <<"/", "a">> :> <<"/", "b">>,
     <<"/", "b", "/", "a">> :> <<"/", "a">>}

\* the characters of the paths resolved
PathChars == {"/", ".", "a", "b"}

\* the paths resolved are of at most this many characters
MaxPathLen == 4

\* "/a/./b/../c", "/a//b", "/a/b/c" and "/b/../a/."
ExamplePaths ==
    {<<"/", "a", "/", ".", "/", "b", "/", ".", ".", "/", "c">>,
     <<"/", "a", "/", "/", "b">>,
     <<"/", "a", "/", "b", "/", "c">>,
     <<"/", "b", "/", ".", ".", "/", "a", "/", ".">>}

\* the paths handed to resolve_path: every string of PathChars up to
\* MaxPathLen characters, absolute or not, and the examples
ResolveInputs ==
    UNION {[1 .. k -> PathChars] : k \in 0 .. MaxPathLen} \cup ExamplePaths

\* the symbolic links of the file system, path :> target: none; /a to
\* itself; /a and /b to each other; /a/b to ../c; /a to /b/; /a to b;
\* /a to /; /b to a/b and /a/b to . ; /a to ..
LinkConfigs ==
    {<<>>,
     <<"/", "a">> :> <<"/", "a">>,
     <<"/", "a">> :> <<"/", "b">> @@ <<"/", "b">> :> <<"/", "a">>,
     <<"/", "a", "/", "b">> :> <<".", ".", "/", "c">>,
     <<"/", "a">> :> <<"/", "b", "/">>,
     <<"/", "a">> :> <<"b">>,
     <<"/", "a">> :> <<"/">>,
     <<"/", "b">> :> <<"a", "/", "b">> @@ <<"/", "a", "/", "b">> :> <<".">>,
     <<"/", "a">> :> <<".", ".">>}

\* a caller hands a path to resolve_path
ResolveCall(fullpath, followFinalSymlink) ==
    /\ ~fatal
    /\ rs.pc = "idle"
    /\ rs' = ResolveBegin(Observer, fullpath, followFinalSymlink)
    /\ UNCHANGED <<env, call, ra>>
    /\ UNCHANGED cacheVars
    /\ UNCHANGED ioVars

\* one iteration of the loop of resolve_path, the report of a link included
ResolveIter ==
    /\ rs.pc = "loop"
    /\ rs' = ResolveStep(rs)
    /\ cache_' = rs'.o.cache
    /\ UNCHANGED <<env, call, ra>>
    /\ UNCHANGED <<inputs, disposed_, cacheMtx_, th, nested, seen>>
    /\ UNCHANGED ioVars

\* resolve_path returns to its caller
ResolveReturn ==
    /\ rs.pc = "done"
    /\ rs' = NoResolve
    /\ UNCHANGED <<env, call, ra>>
    /\ UNCHANGED cacheVars
    /\ UNCHANGED ioVars

\* no reporting operation has been called
NoCall == [op |-> "none"]

\* a handler that has not called HandleEvent.  how: where the call of
\* IsCacheHit the handler made returned; mutexThen: the owner of cacheMtx_
\* when HandleEvent was called
NoHandler == [engine |-> "no", how |-> "", mutexThen |-> NoThread]

\* a thread outside report_access.  engine: whether HandleEvent was called
\* ("called"), left out because mediation is off ("skipped"), or not reached
\* ("no"); mutexThen: the owner of cacheMtx_ at that point; handler: the
\* same for the last handler that interrupted the call.  repeat: a call
\* with this event and path had returned when this one began; checked: the
\* call's IsCacheHit ran its critical section before the disposal; fresh:
\* no earlier critical section had been run with this event and path
NoFrame ==
    [pc |-> "idle", event |-> "", path |-> "", secondPath |-> "",
     result |-> sNotChecked, engine |-> "no", mutexThen |-> NoThread,
     handler |-> NoHandler, repeat |-> FALSE, checked |-> FALSE,
     fresh |-> FALSE]

\* no thread is in report_access.  returned: the <<event, path>> of the
\* calls that have returned, those of the kinds IsCacheHit never caches left
\* out; denied: those of them that HandleEvent denied
NoFrames ==
    [frames |-> [t \in Threads |-> NoFrame], returned |-> {}, denied |-> {}]

\* report_access(syscallName, eventType, reportPath, secondPath, mode) is
\* called on thread t
ReportAccessBegins(t, event, path, secondPath) ==
    /\ t \in inputs.threads
    /\ event \in inputs.events
    /\ ra.frames[t].pc = "idle"
    /\ th[t].pc = "idle"
    /\ ra' = [ra EXCEPT !.frames[t] =
                 [NoFrame EXCEPT !.pc = "IsCacheHit", !.event = event,
                                 !.path = path, !.secondPath = secondPath,
                                 !.repeat = <<event, path>> \in ra.returned]]
    /\ UNCHANGED <<env, rs, call>>
    /\ UNCHANGED cacheVars
    /\ UNCHANGED ioVars

\* the call enters IsCacheHit with its arguments
CallsIsCacheHit(t) ==
    /\ ra.frames[t].pc = "IsCacheHit"
    /\ Enter(t, ra.frames[t].event, ra.frames[t].path, ra.frames[t].secondPath)

\* IsCacheHitReturns going on to mediate after a hit
IsCacheHitReturns_IgnoresHit(t) ==
    /\ ra.frames[t].pc = "IsCacheHit"
    /\ th[t].pc = "done"
    /\ th' = [th EXCEPT ![t] = Idle]
    /\ ra' = [ra EXCEPT !.frames[t].pc = "HandleEvent",
                        !.frames[t].checked = th[t].mapValid,
                        !.frames[t].fresh = th[t].fresh]
    /\ UNCHANGED <<inputs, disposed_, cache_, cacheMtx_, nested, seen>>
    /\ UNCHANGED <<env, rs, call>>
    /\ UNCHANGED ioVars

\* IsCacheHit returns to report_access: on a hit report_access is about to
\* return sNotChecked, else it goes on to the overload that mediates
IsCacheHitReturns(t) ==
    /\ ra.frames[t].pc = "IsCacheHit"
    /\ th[t].pc = "done"
    /\ th' = [th EXCEPT ![t] = Idle]
    /\ ra' = [ra EXCEPT !.frames[t].pc =
                            IF th[t].ret THEN "done" ELSE "HandleEvent",
                        !.frames[t].checked = th[t].mapValid,
                        !.frames[t].fresh = th[t].fresh]
    /\ UNCHANGED <<inputs, disposed_, cache_, cacheMtx_, nested, seen>>
    /\ UNCHANGED <<env, rs, call>>
    /\ UNCHANGED ioVars

\* the overload that takes the event, told not to check the cache: if
\* IsEnabled(), HandleEvent is called and returns verdict
Mediates(t, verdict) ==
    /\ ra.frames[t].pc = "HandleEvent"
    /\ ra' = [ra EXCEPT !.frames[t].pc = "done",
                        !.frames[t].result =
                            IF env.enabled THEN verdict ELSE sNotChecked,
                        !.frames[t].engine =
                            IF env.enabled THEN "called" ELSE "skipped",
                        !.frames[t].mutexThen = cacheMtx_]
    /\ UNCHANGED <<env, rs, call>>
    /\ UNCHANGED cacheVars
    /\ UNCHANGED ioVars

\* report_access returns to its caller
ReportAccessReturns(t) ==
    /\ ra.frames[t].pc = "done"
    /\ ra' = [ra EXCEPT
                 !.frames[t] = NoFrame,
                 !.returned =
                     IF /\ Len(ra.frames[t].secondPath) = 0
                        /\ ra.frames[t].event \notin {"FORK", "EXEC", "EXIT"}
                     THEN @ \cup {<<ra.frames[t].event, ra.frames[t].path>>}
                     ELSE @,
                 !.denied =
                     IF /\ Len(ra.frames[t].secondPath) = 0
                        /\ ra.frames[t].event \notin {"FORK", "EXEC", "EXIT"}
                        /\ ra.frames[t].result = "Deny"
                     THEN @ \cup {<<ra.frames[t].event, ra.frames[t].path>>}
                     ELSE @]
    /\ UNCHANGED <<env, rs, call>>
    /\ UNCHANGED cacheVars
    /\ UNCHANGED ioVars

\* the handler that interrupted thread t in the critical section was making
\* a call of report_access: its IsCacheHit has returned false, HandleEvent is
\* called if IsEnabled(), and the handler returns
HandlerReports(t) ==
    /\ nested.thread = t
    /\ nested' = NoNested
    /\ ra' = [ra EXCEPT !.frames[t].handler =
                 [engine |-> IF env.enabled THEN "called" ELSE "skipped",
                  how |-> nested.how,
                  mutexThen |-> cacheMtx_]]
    /\ UNCHANGED <<inputs, disposed_, cache_, cacheMtx_, th, seen>>
    /\ UNCHANGED <<env, rs, call>>
    /\ UNCHANGED ioVars

ReportInit ==
    /\ env = NoEnv
    /\ rs = NoResolve
    /\ call = NoCall
    /\ ra = NoFrames

\* the run makes no call of IsCacheHit
NoCacheInputs ==
    [threads |-> {}, events |-> {}, progname |-> Lit(<<"s", "h">>),
     pid |-> 4242, realOpen |-> TRUE]

FdInit ==
    /\ inputs = NoCacheInputs
    /\ CacheInit
    /\ IOInit
    /\ ReportInit

FdNext ==
    \/ \E fd \in Fds : FdToPath(fd)
    \/ \E fd \in Fds : ResetFdTableEntry(fd)
    \/ ResetFdTable
    \/ \E fd \in OpenFds, path \in LivePaths \cup {<<>>} : KernelRemap(fd, path)

SpecFd == FdInit /\ [][FdNext]_vars

\* the process sends reports
ChannelInit ==
    /\ inputs \in [threads : {{}}, events : {{}},
                  progname : {NoCacheInputs.progname}, pid : {NoCacheInputs.pid},
                  realOpen : BOOLEAN]
    /\ CacheInit
    /\ IOInit
    /\ ReportInit

ChannelNext ==
    \E report \in Reports, logFd \in Fds, wr \in WriteKinds :
        SendReportCall(report, logFd, wr)

SpecChannel == ChannelInit /\ [][ChannelNext]_vars

\* the reports of the runs that look at the descriptor table: short ones
\* that are sent
ShortReports ==
    {r \in Reports : /\ r.operation.tag # "kOpProcessTreeCompleted"
                     /\ r.error = 0
                     /\ StrLen(r.path) = 2}

\* the descriptors of those runs: the first two slots of the table
SendFds == {0, 1}

\* the traced program opens and closes descriptors, their paths are asked
\* for, and reports are sent in between
SendNext ==
    \/ \E fd \in SendFds : FdToPath(fd)
    \/ \E fd \in SendFds, path \in LivePaths \cup {<<>>} : KernelRemap(fd, path)
    \/ \E report \in ShortReports, logFd \in SendFds \cup {-1, MAX_FD},
          wr \in {"all", "short"} :
          SendReportCall(report, logFd, wr)

SpecSend == FdInit /\ [][SendNext]_vars

\* a process reports writes and asks for the first allow-write check of the
\* same paths
FirstWriteNext ==
    \/ \E path \in ReportPaths, mode \in FdModes, logFd \in {-1, 0},
          wr \in {"all", "short"} :
          ReportFirstAllowWriteCheck(path, mode, logFd, wr)
    \/ \E path \in ReportPaths, verdict \in {"Allow", "Deny"} :
          ReportAccessCall("WRITE", path, <<>>, 0, verdict)

SpecFirstWrite == FdInit /\ [][FirstWriteNext]_vars

\* two threads call report_access concurrently, with handlers that
\* interrupt them and call it too; mediation is on or off
ConcReportInit ==
    /\ inputs \in [threads : {Threads}, events : {{"WRITE", "EXEC"}},
                  progname : {NoCacheInputs.progname}, pid : {NoCacheInputs.pid},
                  realOpen : {TRUE}]
    /\ CacheInit
    /\ IOInit
    /\ env \in [links : {<<>>}, st_mode : {S_IFREG}, enabled : BOOLEAN,
                 monitoring : {TRUE}]
    /\ rs = NoResolve
    /\ call = NoCall
    /\ ra = NoFrames

\* what thread t does next in report_access and in the IsCacheHit it calls
ThreadStep(t) ==
    \/ CallsIsCacheHit(t)
    \/ TryLockAcquired(t)
    \/ TryLockTimedOut(t)
    \/ CriticalSection(t)
    \/ IsCacheHitReturns(t)
    \/ \E verdict \in {"Allow", "Deny"} : Mediates(t, verdict)
    \/ ReportAccessReturns(t)
    \/ HandlerReports(t)

ConcReportNext ==
    \/ \E t \in Threads, e \in EventTypes, s \in SecondPaths :
          ReportAccessBegins(t, e, "/p", s)
    \/ \E t \in Threads : ThreadStep(t)
    \/ \E t \in Threads, e \in EventTypes : Reenter(t, e, "/p", "")
    \/ Dispose

SpecConcReport == ConcReportInit /\ [][ConcReportNext]_vars

\* a thread that can take a step takes one, and the critical section is not
\* held up by handlers for ever
SpecConcReportFair ==
    /\ SpecConcReport
    /\ \A t \in Threads : WF_vars(ThreadStep(t)) /\ SF_vars(CriticalSection(t))

\* one thread reports any one or two event kinds
Init ==
    /\ inputs \in [threads : {{1}}, events : EventPairs,
                  progname : {NoCacheInputs.progname}, pid : {NoCacheInputs.pid},
                  realOpen : {TRUE}]
    /\ CacheInit
    /\ IOInit
    /\ ReportInit

Next ==
    \/ \E t \in Threads, e \in EventTypes, p \in Paths, s \in SecondPaths :
          Enter(t, e, p, s)
    \/ \E t \in Threads : TryLockAcquired(t)
    \/ \E t \in Threads : CriticalSection(t)
    \/ \E t \in Threads : Return(t)
    \/ \E t \in Threads, e \in EventTypes, p \in Paths, s \in SecondPaths :
          Reenter(t, e, p, s)
    \/ \E t \in Threads : Resume(t)
    \/ Dispose

Spec == Init /\ [][Next]_vars

\* two threads report concurrently
ConcInit ==
    /\ inputs \in [threads : {Threads}, events : ConcurrentEvents,
                  progname : {NoCacheInputs.progname}, pid : {NoCacheInputs.pid},
                  realOpen : {TRUE}]
    /\ CacheInit
    /\ IOInit
    /\ ReportInit

ConcNext ==
    \/ Next
    \/ \E t \in Threads : TryLockTimedOut(t)

SpecConc == ConcInit /\ [][ConcNext]_vars

\* paths are resolved over one of the file systems
ResolveInit ==
    /\ inputs = NoCacheInputs
    /\ CacheInit
    /\ IOInit
    /\ env \in [links : LinkConfigs, st_mode : {S_IFREG}, enabled : {TRUE},
                 monitoring : {TRUE}]
    /\ rs = NoResolve
    /\ call = NoCall
    /\ ra = NoFrames

ResolveNext ==
    \/ \E fullpath \in ResolveInputs, followFinalSymlink \in BOOLEAN :
          ResolveCall(fullpath, followFinalSymlink)
    \/ ResolveIter
    \/ ResolveReturn

SpecResolve == ResolveInit /\ [][ResolveNext]_vars

\* an iteration of the loop that can be made is made
SpecResolveFair == SpecResolve /\ WF_vars(ResolveIter)

\* a process reports accesses and execs
ReportSpecInit ==
    /\ inputs = NoCacheInputs
    /\ CacheInit
    /\ IOInit
    /\ env \in [links : ReportLinks, st_mode : {S_IFREG}, enabled : BOOLEAN,
                 monitoring : BOOLEAN]
    /\ rs = NoResolve
    /\ call = NoCall
    /\ ra = NoFrames

ReportNext ==
    \/ \E eventType \in ReportEvents, path \in ReportPaths,
          secondPath \in {<<>>, <<"/", "b">>}, mode \in {0, S_IFREG},
          verdict \in Verdicts :
          ReportAccessCall(eventType, path, secondPath, mode, verdict)
    \/ \E eventType \in ReportEvents, path \in ReportPaths,
          secondPath \in {<<>>, <<"/", "b">>}, checkCache \in BOOLEAN,
          verdict \in Verdicts :
          ReportAccessEventCall(eventType, path, secondPath, S_IFREG,
                                checkCache, verdict)
    \/ \E procName \in ExecNames, file \in ExecFiles, cwd \in Cwds :
          ReportExec(procName, file, cwd, "Allow")

SpecReport == ReportSpecInit /\ [][ReportNext]_vars

\* a process reports accesses by descriptor: descriptor 0 is open on the
\* directory /b, the others are closed
ReportFdInit ==
    /\ inputs = NoCacheInputs
    /\ CacheInit
    /\ fdTable_ = [i \in 0 .. MAX_FD - 1 |-> <<>>]
    /\ procFd = [i \in OpenFds |-> IF i = 0 THEN <<"/", "b">> ELSE <<>>]
    /\ fdop = NoFdOp
    /\ invalidated = [i \in 0 .. MAX_FD - 1 |-> NotReset]
    /\ sent = NoReport
    /\ fatal = FALSE
    /\ env \in [links : ReportLinks, st_mode : {S_IFREG + 420},
                 enabled : {TRUE}, monitoring : {TRUE}]
    /\ rs = NoResolve
    /\ call = NoCall
    /\ ra = NoFrames

ReportFdNext ==
    \/ \E fd \in {0, 1}, mode \in FdModes, verdict \in {"Allow", "Deny"} :
          ReportAccessFd("OPEN", fd, mode, verdict)
    \/ \E dirfd \in {AT_FDCWD, 0, 1}, pathname \in AtPathnames,
          flags \in AtFlags, dirMode \in {0, S_IFDIR + 493, S_IFIFO + 384},
          cwd \in Cwds :
          ReportAccessAt("OPEN", dirfd, pathname, flags, dirMode, cwd, "Allow")
    \/ \E dirfd \in {AT_FDCWD, 0, 1},
          pathname \in AtPathnames \cup {NullPath},
          oflags \in AtFlags, cwd \in Cwds :
          NormalizePathAt(dirfd, pathname, oflags, cwd)

SpecReportFd == ReportFdInit /\ [][ReportFdNext]_vars

(***************************************************************************)
(* Properties of IsCacheHit                                                *)
(***************************************************************************)
\* thread t has returned from a call whose critical section ran on the valid map
Inserted(t) == th[t].pc = "done" /\ th[t].mapValid

\* an earlier call than the one t has returned from completed the critical
\* section with event e and t's path
SeenBefore(t, e) ==
    /\ <<e, th[t].path>> \in seen
    /\ e # th[t].event \/ ~th[t].fresh

\* C1: on a cache that is not disposed, a call that acquires the lock returns
\* false if it is the first with its key and path, and true if a call with
\* the same event and path came before, whatever calls on other events or
\* paths were made in between; it returns true only if an earlier call with
\* the same key and the same path inserted the path.
C1_FirstFalseThenTrue ==
    \A t \in Threads :
        Inserted(t) =>
            /\ ~th[t].fresh => th[t].ret
            /\ th[t].ret <=>
                 \E e \in EventTypes :
                     SeenBefore(t, e) /\ EventKey(e) = EventKey(th[t].event)

\* a second OPEN of /p is a duplicate although READLINK /p and OPEN /q came
\* in between
C1_Witness ==
    /\ Inserted(1)
    /\ th[1].event = "OPEN" /\ th[1].path = "/p"
    /\ ~th[1].fresh /\ th[1].ret
    /\ <<"READLINK", "/p">> \in seen
    /\ <<"OPEN", "/q">> \in seen

\* C2: a call with event FORK, EXEC or EXIT, or with a non-empty second path,
\* returns false at once, however often it was made before; it does not
\* acquire cacheMtx_ and adds nothing to cache_.
C2_NeverCachedKinds ==
    [][\A t \in Threads :
          (/\ th[t].pc = "idle"
           /\ th'[t].pc # "idle"
           /\ \/ th'[t].event \in {"FORK", "EXEC", "EXIT"}
              \/ th'[t].secondPath # "")
          => /\ th'[t].pc = "done"
             /\ th'[t].ret = FALSE
             /\ th'[t].locked = FALSE
             /\ cacheMtx_' = cacheMtx_
             /\ cache_' = cache_]_vars

\* a two-path call returned false although its event and first path had been
\* inserted before
C2_Witness ==
    /\ th[1].pc = "done"
    /\ th[1].secondPath = "/s"
    /\ th[1].event = "WRITE"
    /\ ~th[1].ret
    /\ <<"WRITE", th[1].path>> \in seen

\* the kinds the read class is said to hold
ReadClass == {"GETATTRLIST", "GETEXTATTR", "LISTEXTATTR", "ACCESS", "STAT"}

\* the kinds the write class is said to hold (set-times: UTIMES and SETTIME)
WriteClass ==
    {"TRUNCATE", "SETATTRLIST", "SETEXTATTR", "DELETEEXTATTR", "SETFLAGS",
     "SETOWNER", "SETMODE", "WRITE", "UTIMES", "SETTIME", "SETACL"}

\* C3: the read-class kinds share one key: once a call with a read-class
\* kind and path p has completed on a valid, uncontended cache, a call with
\* any read-class kind and p returns true.
C3_ReadClassShared ==
    \A t \in Threads :
        (/\ Inserted(t)
         /\ th[t].event \in ReadClass
         /\ \E k1 \in ReadClass : SeenBefore(t, k1))
        => th[t].ret

\* C4: the write-class kinds share one key: once a call with a write-class
\* kind and path p has completed on a valid, uncontended cache, a call with
\* any write-class kind and p returns true; and a call with a kind outside
\* the class returns true only after a call with a kind outside the class
\* and the same path.
C4_WriteClassShared ==
    \A t \in Threads :
        Inserted(t) =>
            /\ (/\ th[t].event \in WriteClass
                /\ \E k1 \in WriteClass : SeenBefore(t, k1))
               => th[t].ret
            /\ (th[t].event \notin WriteClass /\ th[t].ret)
               => \E k \in EventTypes \ WriteClass : SeenBefore(t, k)

\* the first SETACL call on a path is a duplicate of an earlier TRUNCATE
C4_Witness ==
    /\ Inserted(1)
    /\ th[1].event = "SETACL"
    /\ th[1].fresh
    /\ th[1].ret
    /\ <<"TRUNCATE", th[1].path>> \in seen

\* C5: a call made once the observer is disposed returns false at once, for
\* every event and path, and leaves cache_ and cacheMtx_ as they are.
C5_DisposedBypass ==
    [][\A t \in Threads :
          (disposed_ /\ th[t].pc = "idle" /\ th'[t].pc # "idle")
          => /\ th'[t].pc = "done"
             /\ th'[t].ret = FALSE
             /\ th'[t].locked = FALSE
             /\ cacheMtx_' = cacheMtx_
             /\ cache_' = cache_]_vars

\* after the disposal a call returned false for a pair inserted before it
C5_Witness ==
    /\ disposed_
    /\ th[1].pc = "done"
    /\ th[1].disposedAtEntry
    /\ th[1].event = "STAT" /\ th[1].secondPath = ""
    /\ ~th[1].ret
    /\ <<"STAT", th[1].path>> \in seen
    /\ th[1].path \in cache_["STAT"]

\* C6: a call whose try_lock_for fails, the mutex being held by another
\* thread or by the interrupted thread itself, returns false at once and
\* leaves cache_ unchanged; no call returns true without having held the
\* mutex.
C6_LockTimeout ==
    [][/\ \A t \in Threads :
            /\ (th[t].pc = "trylock" /\ th'[t].pc \notin {"trylock", "critical"})
               => /\ th'[t].pc = "done"
                  /\ th'[t].ret = FALSE
                  /\ cache_' = cache_
                  /\ cacheMtx_' = cacheMtx_
            /\ (th'[t].pc = "critical") => cacheMtx_' = t
            /\ (th'[t].pc = "done" /\ th'[t].ret) => th'[t].locked
       /\ (nested' # nested /\ nested'.thread # NoThread)
            => /\ nested'.ret = FALSE
               /\ cache_' = cache_
               /\ cacheMtx_' = cacheMtx_]_vars

\* thread 2 timed out on the mutex thread 1 holds and returned false for a
\* path that is in the cache
C6_Witness ==
    /\ th[1].pc = "critical"
    /\ cacheMtx_ = 1
    /\ th[2].pc = "done"
    /\ th[2].event = "WRITE" /\ th[2].secondPath = ""
    /\ ~th[2].disposedAtEntry
    /\ ~th[2].locked
    /\ ~th[2].ret
    /\ "WRITE" \in DOMAIN cache_
    /\ th[2].path \in cache_["WRITE"]

(***************************************************************************)
(* Properties of SendReport and Send                                       *)
(***************************************************************************)
\* the last SendReport call formatted its report (it was not dropped)
Serialized == sent.called /\ sent.report.operation.tag # "kOpProcessTreeCompleted"

\* the length of the text record of the last report
RecordLength == StrLen(Formatted(inputs.progname, inputs.pid, sent.report))

\* the value of a four-byte prefix
PrefixValue(b) == b[1] + 256 * b[2] + 65536 * b[3] + 16777216 * b[4]

\* some run of the string s is of the character c
HasChar(s, c) == \E i \in 1 .. Len(s) : s[i].ch = c

\* C7: a report whose text record is as long as PIPE_BUF - 4 or longer ends
\* in the fatal state without any write; no write carries a truncated
\* record.
C7_OversizeIsFatal ==
    Serialized =>
        /\ RecordLength >= PIPE_BUF - 4
             => /\ sent.outcome = "fatal"
                /\ fatal
                /\ sent.writes = <<>>
        /\ \A i \in 1 .. Len(sent.writes) :
             /\ StrLen(sent.writes[i].text) = RecordLength
             /\ LastChar(sent.writes[i].text) = "\n"

\* a record longer than the text area ended in the fatal state, unwritten
C7_Witness ==
    /\ Serialized
    /\ RecordLength > PIPE_BUF - 4
    /\ sent.outcome = "fatal"
    /\ sent.writes = <<>>
    /\ inputs.realOpen

\* C8: Send returns true only if its write transferred all the bytes asked
\* for: whenever write returns less than the size requested, -1 included,
\* Send ends in the fatal state.
C8_ShortWriteIsFatal ==
    sent.called =>
        \A i \in 1 .. Len(sent.writes) :
            sent.writes[i].result < sent.writes[i].count
                => sent.outcome = "fatal"

\* C9: every write Send makes carries a four-byte prefix whose value is the
\* number of bytes of the text record behind it; the record ends with a
\* newline and holds no NUL; the size written is the prefix value plus 4
\* and at most PIPE_BUF; a report is written by one write, never by more.
C9_MessageFraming ==
    sent.called =>
        /\ Len(sent.writes) <= 1
        /\ (Serialized /\ sent.outcome = "true") => Len(sent.writes) = 1
        /\ \A i \in 1 .. Len(sent.writes) :
             LET w == sent.writes[i]
             IN  /\ Len(w.prefix) = 4
                 /\ PrefixValue(w.prefix) = StrLen(w.text)
                 /\ StrLen(w.text) = RecordLength
                 /\ LastChar(w.text) = "\n"
                 /\ ~HasChar(w.text, NUL)
                 /\ w.count = PrefixValue(w.prefix) + 4
                 /\ w.count <= PIPE_BUF

\* the longest record that fits was written whole: PIPE_BUF - 1 bytes
C9_Witness ==
    /\ sent.called
    /\ sent.outcome = "true"
    /\ Len(sent.writes) = 1
    /\ sent.writes[1].count = PIPE_BUF - 1
    /\ sent.writes[1].result = sent.writes[1].count

(***************************************************************************)
(* Properties of the file descriptor table                                 *)
(***************************************************************************)
\* this step is a call of fd_to_path(fd)
IsFdToPath(fd) ==
    /\ fdop'.turn # fdop.turn
    /\ fdop'.op = "fd_to_path"
    /\ fdop'.fd = fd

\* C10: for a descriptor of the table, fd_to_path returns the cached path
\* without reading /proc/self/fd while the slot holds one; the first
\* fd_to_path after reset_fd_table_entry(fd) or reset_fd_table() reads
\* /proc/self/fd and returns and caches what the kernel says then.
C10_CachedUntilReset ==
    [][\A fd \in 0 .. MAX_FD - 1 :
          IsFdToPath(fd) =>
              /\ fdTable_[fd] # <<>>
                   => /\ fdop'.ret = fdTable_[fd]
                      /\ ~fdop'.queried
                      /\ fdTable_'[fd] = fdTable_[fd]
              /\ invalidated[fd] # NotReset
                   => /\ fdop'.queried
                      /\ fdop'.ret = procFd[fd]
                      /\ fdTable_'[fd] = procFd[fd]]_vars

\* descriptor 0 was cached as /a, reset, redirected to /b, and fd_to_path
\* then returned and cached /b
C10_Witness ==
    /\ fdop.op = "fd_to_path"
    /\ fdop.fd = 0
    /\ fdop.stale = <<"/", "a">>
    /\ fdop.queried
    /\ fdop.ret = <<"/", "b">>
    /\ fdTable_[0] = <<"/", "b">>

\* this step is a call of reset_fd_table_entry(fd)
IsResetFdTableEntry(fd) ==
    /\ fdop'.turn # fdop.turn
    /\ fdop'.op = "reset_fd_table_entry"
    /\ fdop'.fd = fd

\* what /proc/self/fd says of the descriptor fd
LivePath(fd) == IF fd \in DOMAIN procFd THEN procFd[fd] ELSE <<>>

\* C11: for a descriptor outside the table (fd < 0 or fd >= MAX_FD)
\* fd_to_path returns what /proc/self/fd says and leaves every slot as it
\* was, and reset_fd_table_entry changes nothing; for a descriptor of the
\* table either call changes no slot but that of fd.
C11_OutOfRangeBypass ==
    [][\A fd \in Fds :
          /\ (IsFdToPath(fd) /\ (fd < 0 \/ fd >= MAX_FD))
                => /\ fdop'.queried
                   /\ fdop'.ret = LivePath(fd)
                   /\ fdTable_' = fdTable_
          /\ (IsResetFdTableEntry(fd) /\ (fd < 0 \/ fd >= MAX_FD))
                => fdTable_' = fdTable_
          /\ (IsFdToPath(fd) \/ IsResetFdTableEntry(fd))
                => \A s \in DOMAIN fdTable_ :
                       s # fd => fdTable_'[s] = fdTable_[s]]_vars

\* fd_to_path(MAX_FD) returned the live path of the descriptor while every
\* slot of the table held the other path
C11_Witness ==
    /\ fdop.op = "fd_to_path"
    /\ fdop.fd = MAX_FD
    /\ fdop.queried
    /\ fdop.ret = <<"/", "b">>
    /\ \A s \in DOMAIN fdTable_ : fdTable_[s] = <<"/", "a">>

(***************************************************************************)
(* Properties of resolve_path                                              *)
(***************************************************************************)
\* the segment of the path in the places i .. j (between two '/', or
\* between a '/' and the end)
IsSegment(path, i, j) ==
    /\ i >= 2
    /\ i <= j
    /\ j <= Len(path)
    /\ path[i - 1] = "/"
    /\ j = Len(path) \/ path[j + 1] = "/"
    /\ \A k \in i .. j : path[k] # "/"

\* an absolute path with no empty segment, no "." and no ".."
Canonical(path) ==
    /\ Len(path) >= 1
    /\ path[1] = "/"
    /\ \A i \in 1 .. Len(path) - 1 : ~(path[i] = "/" /\ path[i + 1] = "/")
    /\ \A i, j \in 1 .. Len(path) :
          IsSegment(path, i, j) =>
              /\ SubSeq(path, i, j) # <<".">>
              /\ SubSeq(path, i, j) # <<".", ".">>

\* C16: over a file system without symbolic links resolve_path leaves, for
\* an absolute path, an absolute path with no "//", no "." segment and no
\* ".." segment, wherever they are in the input; "/a/./b/../c" gives "/a/c",
\* "/a//b" gives "/a/b", and a path that is canonical already is left as it
\* is.
C16_Canonicalizes ==
    (rs.pc = "done" /\ env.links = <<>> /\ CharAt(rs.input, 0) = "/") =>
        /\ Canonical(rs.fullpath)
        /\ Canonical(rs.input) => rs.fullpath = rs.input
        /\ rs.input = <<"/", "a", "/", ".", "/", "b", "/", ".", ".", "/", "c">>
              => rs.fullpath = <<"/", "a", "/", "c">>
        /\ rs.input = <<"/", "a", "/", "/", "b">>
              => rs.fullpath = <<"/", "a", "/", "b">>

\* no path is twice in the list
NoRepeat(list) ==
    \A i, j \in 1 .. Len(list) : list[i] = list[j] => i = j

\* the file system in which /a is a link to itself
SelfLoop == <<"/", "a">> :> <<"/", "a">>

\* C17: with any of the link configurations, loops among them, and any
\* path, resolve_path comes to its end, and in one resolution no link is
\* reported as read twice; with /a a link to /a, resolve_path("/a", true)
\* reports /a once.
C17_TerminatesReportsOnce ==
    /\ [](rs.pc # "idle" =>
            /\ NoRepeat(rs.readlinks)
            /\ Len(rs.o.trace) = Len(rs.readlinks)
            /\ (/\ rs.pc = "done"
                /\ env.links = SelfLoop
                /\ rs.input = <<"/", "a">>
                /\ rs.followFinalSymlink)
                  => rs.readlinks = << <<"/", "a">> >>)
    /\ (rs.pc = "loop") ~> (rs.pc = "done")

\* the resolution of "/a/b" over the links /a to /b and /b to /a has ended,
\* each of the two reported once
C17_Witness ==
    /\ rs.pc = "done"
    /\ DOMAIN env.links = {<<"/", "a">>, <<"/", "b">>}
    /\ rs.input = <<"/", "a", "/", "b">>
    /\ rs.readlinks = << <<"/", "a">>, <<"/", "b">> >>

\* this step is an iteration of resolve_path that found a link not yet
\* visited (and reported it)
FoundLink ==
    /\ rs.pc = "loop"
    /\ rs'.pc = "loop"
    /\ Len(rs'.readlinks) = Len(rs.readlinks) + 1

\* the place of the '/' in front of the segment that ends at offset p
SegmentSlash(buf, p) ==
    CHOOSE k \in 1 .. p : buf[k] = "/" /\ \A j \in k + 1 .. p : buf[j] # "/"

\* the target of the link followed by the rest of the path; with dedupe,
\* less the leading '/' of the rest when the target ends in '/'
TargetAndRest(target, rest, dedupe) ==
    IF /\ dedupe
       /\ target[Len(target)] = "/"
       /\ Len(rest) > 0
       /\ rest[1] = "/"
    THEN target \o Tail(rest)
    ELSE target \o rest

\* what a step that found a new link does to the buffer and the position,
\* and what the loop does at the end of the path
Substitution(dedupe) ==
    LET buf == rs.fullpath
        p == rs.pFullpath
        current == SubSeq(buf, 1, p)
        target == env.links[current]
        rest == SubSeq(buf, p + 1, Len(buf))
        k == SegmentSlash(buf, p)
    IN  /\ FoundLink =>
              /\ current \in DOMAIN env.links
              /\ current \notin rs.visited
              /\ target[1] = "/"
                    => /\ rs'.fullpath = TargetAndRest(target, rest, dedupe)
                       /\ rs'.pFullpath = 1
              /\ target[1] # "/"
                    => /\ rs'.fullpath =
                             SubSeq(buf, 1, k) \o TargetAndRest(target, rest, dedupe)
                       /\ rs'.pFullpath = k
        /\ (rs.pc = "loop" /\ p = Len(buf) /\ ~rs.followFinalSymlink)
              => /\ rs'.pc = "done"
                 /\ rs'.fullpath = buf
                 /\ rs'.readlinks = rs.readlinks
        /\ (/\ rs'.pc = "done"
            /\ DOMAIN env.links = {<<"/", "a", "/", "b">>}
            /\ rs'.input = <<"/", "a", "/", "b">>
            /\ rs'.followFinalSymlink)
              => rs'.fullpath = <<"/", "c">>

\* C18: on finding a link not yet visited, an absolute target followed by
\* the rest of the path takes the place of the whole buffer and the scan
\* starts again just past the root; a relative target takes the place of
\* the segment alone, between the prefix and the rest, and the scan goes on
\* from there ("/a/b" a link to "../c": resolve_path("/a/b") gives "/c");
\* the whole path is looked at as a link only if followFinalSymlink.
C18_SubstitutesTarget == [][Substitution(FALSE)]_vars

\* C18 as amended: where the target ends in '/' and the rest of the path
\* begins with one, a single '/' is kept at the joint.
C18_SubstitutesTargetOneSlash == [][Substitution(TRUE)]_vars

\* resolve_path("/a/b", true), /a/b being a link to "../c", has ended with
\* "/c" in the buffer, the link reported
C18_Witness ==
    /\ rs.pc = "done"
    /\ DOMAIN env.links = {<<"/", "a", "/", "b">>}
    /\ rs.input = <<"/", "a", "/", "b">>
    /\ rs.followFinalSymlink
    /\ rs.readlinks = << <<"/", "a", "/", "b">> >>
    /\ rs.fullpath = <<"/", "c">>

(***************************************************************************)
(* Properties of the reporting operations                                  *)
(***************************************************************************)
\* the last call was one of the two report_access overloads
IsReportAccess == call.op \in {"report_access", "report_access_event"}

\* the cache check of the last call returned true
CacheHit == Len(call.o.trace) = 1 /\ call.o.trace[1].hit

\* C13: a report_access call invokes HandleEvent at most once, and only
\* if IsEnabled() and the cache check, where made, returned false; it then
\* returns what HandleEvent returned; on a cache hit or with mediation
\* off it returns sNotChecked.
C13_EngineAtMostOnce ==
    IsReportAccess =>
        /\ Len(call.o.trace) = (IF call.checkCache THEN 1 ELSE 0)
        /\ Len(call.o.handled) <= 1
        /\ Len(call.o.handled) = 1 <=> (env.enabled /\ ~CacheHit)
        /\ Len(call.o.handled) = 1
              => /\ call.o.result = call.verdict
                 /\ call.o.handled[1].eventType = call.eventType
                 /\ call.o.handled[1].path = call.path
        /\ Len(call.o.handled) = 0 => call.o.result = sNotChecked

\* with mediation on, a report_access call hit the cache and returned
\* sNotChecked without a call of HandleEvent, which would have said Deny
C13_Witness ==
    /\ IsReportAccess
    /\ env.enabled
    /\ CacheHit
    /\ call.verdict = "Deny"
    /\ call.o.handled = <<>>
    /\ call.o.result = sNotChecked

\* the list holds an exec of the first path, then reports of read links
\* only, then an exec of the last path
ExecThenLinksThenExec(list, first, last) ==
    /\ Len(list) >= 2
    /\ list[1].eventType = "EXEC"
    /\ list[1].path = first
    /\ \A i \in 2 .. Len(list) - 1 : list[i].eventType = "READLINK"
    /\ list[Len(list)].eventType = "EXEC"
    /\ list[Len(list)].path = last

\* the report_exec call ended in _fatal: its file is relative and getcwd
\* failed
ExecCutShort == call.o.fatal

\* C14: with the monitoring of child processes on, report_exec hands an
\* exec event with procName as it is to HandleEvent before any report of a
\* read link made while file is resolved and before the exec event of the
\* resolved file; both exec events reach HandleEvent, whatever the cache
\* holds.  With the monitoring off report_exec reports nothing.
C14_ExecOrder ==
    call.op = "report_exec" =>
        IF env.monitoring
        THEN /\ Len(call.o.resolved) = 1
             /\ ExecThenLinksThenExec(call.o.trace, call.procName,
                                      call.o.resolved[1].result)
             /\ \A i \in 1 .. Len(call.o.trace) :
                   call.o.trace[i].eventType = "EXEC" => ~call.o.trace[i].hit
             /\ ExecThenLinksThenExec(call.o.handled, call.procName,
                                      call.o.resolved[1].result)
        ELSE /\ call.o.trace = <<>>
             /\ call.o.handled = <<>>
             /\ call.o.resolved = <<>>

\* C14 as amended: the exec events reach HandleEvent if mediation is on;
\* with mediation off the two report_access calls are made in the same
\* order and nothing reaches HandleEvent; if file is relative and getcwd
\* fails, the call ends in _fatal behind the first exec event.
C14_ExecOrderWhenMediating ==
    call.op = "report_exec" =>
        IF env.monitoring
        THEN /\ Len(call.o.trace) >= 1
             /\ call.o.trace[1] = [eventType |-> "EXEC", path |-> call.procName,
                                   hit |-> FALSE]
             /\ ExecCutShort <=> (CharAt(call.file, 0) # "/" /\ call.cwd = NoCwd)
             /\ ExecCutShort
                   => /\ Len(call.o.trace) = 1
                      /\ Len(call.o.handled) = (IF env.enabled THEN 1 ELSE 0)
             /\ ~ExecCutShort
                   => /\ Len(call.o.resolved) = 1
                      /\ ExecThenLinksThenExec(call.o.trace, call.procName,
                                               call.o.resolved[1].result)
                      /\ ~call.o.trace[Len(call.o.trace)].hit
             /\ (env.enabled /\ ~ExecCutShort)
                   => ExecThenLinksThenExec(call.o.handled, call.procName,
                                            call.o.resolved[1].result)
             /\ env.enabled
                   => /\ Len(call.o.handled) >= 1
                      /\ call.o.handled[1].eventType = "EXEC"
                      /\ call.o.handled[1].path = call.procName
             /\ ~env.enabled => call.o.handled = <<>>
        ELSE /\ call.o.trace = <<>>
             /\ call.o.handled = <<>>
             /\ call.o.resolved = <<>>

\* report_exec("a", "/a"), /a being a link to /b, handed to HandleEvent the
\* exec of "a", the read link /a and the exec of /b, in this order
C14_Witness ==
    /\ call.op = "report_exec"
    /\ env.monitoring
    /\ env.enabled
    /\ Len(call.o.handled) = 3
    /\ call.o.handled[1].eventType = "EXEC"
    /\ call.o.handled[1].path = <<"a">>
    /\ call.o.handled[2].eventType = "READLINK"
    /\ call.o.handled[2].path = <<"/", "a">>
    /\ call.o.handled[3].eventType = "EXEC"
    /\ call.o.handled[3].path = <<"/", "b">>

\* this step is a call of report_access_fd
IsReportAccessFd == call' # call /\ call'.op = "report_access_fd"

\* the call returned sNotChecked and did nothing else: no HandleEvent, no
\* fd_to_path, no IsCacheHit, the table and the cache as they were
ShortCircuited ==
    /\ call'.o.result = sNotChecked
    /\ call'.o.handled = <<>>
    /\ call'.o.lookups = <<>>
    /\ call'.o.trace = <<>>
    /\ fdTable_' = fdTable_
    /\ cache_' = cache_

\* C12: report_access_fd on a descriptor whose mode is not that of a
\* regular file, a directory or a symbolic link, the mode 0 of a descriptor
\* whose mode could not be determined included, returns sNotChecked without
\* a call of HandleEvent, of fd_to_path or of IsCacheHit.
C12_NonFileShortCircuit ==
    [][(/\ IsReportAccessFd
        /\ ~S_ISREG(call'.mode)
        /\ ~S_ISDIR(call'.mode)
        /\ ~S_ISLNK(call'.mode))
          => ShortCircuited]_vars

\* C12 as amended: the short circuit is for a mode that is known (not 0);
\* with the mode 0, as with the mode of a regular file, a directory or a
\* symbolic link, the path is asked of fd_to_path and the access reported.
C12_KnownNonFileShortCircuit ==
    [][IsReportAccessFd =>
          IF /\ call'.mode # 0
             /\ ~S_ISREG(call'.mode)
             /\ ~S_ISDIR(call'.mode)
             /\ ~S_ISLNK(call'.mode)
          THEN ShortCircuited
          ELSE /\ call'.o.lookups = <<[fd |-> call'.fd,
                                       queried |-> Len(fdTable_[call'.fd]) = 0]>>
               /\ Len(call'.o.trace) = 1
               /\ call'.o.trace[1].eventType = call'.eventType]_vars

\* report_access_fd on a socket returned sNotChecked while the table had
\* no entry for the descriptor and HandleEvent would have said Deny
C12_Witness ==
    /\ call.op = "report_access_fd"
    /\ call.mode = S_IFSOCK + 493
    /\ call.fd = 0
    /\ call.verdict = "Deny"
    /\ call.o.result = sNotChecked
    /\ call.o.lookups = <<>>
    /\ fdTable_[0] = <<>>

(***************************************************************************)
(* Properties of the *at entry points                                      *)
(***************************************************************************)
\* this step is a call of report_access_at or of normalize_path_at
IsAtCall ==
    call' # call /\ call'.op \in {"report_access_at", "normalize_path_at"}

\* every run of resolve_path in the call followed the last link exactly if
\* the flags of the caller do not hold O_NOFOLLOW
FollowsAsFlagsSay ==
    \A i \in DOMAIN call'.o.resolved :
        call'.o.resolved[i].followFinalSymlink = ~HasNoFollow(call'.flags)

\* the mode of the descriptor the path is relative to, 0 where there is
\* none: an absolute path, or a path relative to the working directory
ReferenceMode ==
    IF CharAt(call'.pathname, 0) # "/" /\ call'.dirfd # AT_FDCWD
    THEN call'.dirMode
    ELSE 0

\* the event of the access carries the mode of the reference descriptor or,
\* where that is 0, the mode found for the path reported
EventModeIsFileMode ==
    \A i \in DOMAIN call'.o.handled :
        call'.o.handled[i].eventType = call'.eventType =>
            call'.o.handled[i].mode =
                IF ReferenceMode = 0
                THEN GetMode(call'.o.handled[i].path)
                ELSE ReferenceMode

\* C19: normalize_path_at and report_access_at, for an absolute and for a
\* relative pathname, run resolve_path with followFinalSymlink the negation
\* of the O_NOFOLLOW bit of the flags of the caller, and the mode handed to
\* the event of report_access_at is a file mode, never the flags.
C19_FollowIsNotNoFollow ==
    [][IsAtCall =>
          /\ FollowsAsFlagsSay
          /\ call'.op = "report_access_at" => EventModeIsFileMode]_vars

\* the part of C19 that is about normalize_path_at and about the absolute
\* pathnames of report_access_at
C19_HoldsOffTheRelativeReport ==
    [][(/\ IsAtCall
        /\ \/ call'.op = "normalize_path_at"
           \/ CharAt(call'.pathname, 0) = "/")
          => /\ FollowsAsFlagsSay
             /\ call'.op = "report_access_at" => EventModeIsFileMode]_vars

\* report_access_at was given a relative pathname and O_NOFOLLOW, and
\* resolve_path was run
C19_RelativeNoFollow ==
    /\ call.op = "report_access_at"
    /\ call.pathname = <<"a">>
    /\ HasNoFollow(call.flags)
    /\ Len(call.o.resolved) = 1
    /\ Len(call.o.handled) > 0

(***************************************************************************)
(* Properties of Send and the descriptor table                             *)
(***************************************************************************)
\* this step is a call of SendReport in which Send wrote the record and
\* returned true
SuccessfulSend ==
    /\ sent'.turn # sent.turn
    /\ sent'.outcome = "true"
    /\ Len(sent'.writes) = 1

\* C20: a Send that returns true resets the table entry of the descriptor it
\* opened and then closes the descriptor: the slot of that descriptor is
\* empty, no other slot is changed, and the next fd_to_path on the
\* descriptor reads /proc/self/fd.
C20_SendResetsItsDescriptor ==
    [][/\ SuccessfulSend =>
            /\ sent'.after = <<"reset_fd_table_entry", "real_close">>
            /\ \A s \in DOMAIN fdTable_ :
                   fdTable_'[s] = IF s = sent'.logFd THEN <<>> ELSE fdTable_[s]
       /\ \A fd \in 0 .. MAX_FD - 1 :
            (/\ IsFdToPath(fd)
             /\ sent.called
             /\ sent.outcome = "true"
             /\ sent.logFd = fd
             /\ invalidated[fd] # NotReset)
                => /\ fdop'.queried
                   /\ fdop'.ret = LivePath(fd)
                   /\ fdTable_'[fd] = LivePath(fd)]_vars

\* descriptor 0 was cached as /a and closed unseen; Send was given the
\* descriptor 0 and returned true; the program opened /b on it, and
\* fd_to_path returned /b, while the slot of descriptor 1 held /a throughout
C20_Witness ==
    /\ sent.called
    /\ sent.outcome = "true"
    /\ sent.logFd = 0
    /\ fdop.op = "fd_to_path"
    /\ fdop.fd = 0
    /\ fdop.stale = <<"/", "a">>
    /\ fdop.queried
    /\ fdop.ret = <<"/", "b">>
    /\ fdTable_[1] = <<"/", "a">>

(***************************************************************************)
(* Properties of report_firstAllowWriteCheck                               *)
(***************************************************************************)
\* this step is a call of report_firstAllowWriteCheck
IsFirstAllowWriteCheck ==
    call' # call /\ call'.op = "report_firstAllowWriteCheck"

\* the call handed one report to SendReport, that of the path asked about,
\* and left the cache alone
SendsOneReport ==
    /\ Len(call'.sends) = 1
    /\ sent'.turn # sent.turn
    /\ sent'.report = call'.sends[1]
    /\ sent'.report.operation.tag = "kOpFirstAllowWriteCheckInProcess"
    /\ sent'.report.path = Lit(call'.path)
    /\ cache_' = cache_

\* the result returned says what the status of the report says
ResultAsReported ==
    call'.returned =>
        call'.result.action =
            IF sent'.report.status = FileAccessStatus_Denied
            THEN "Deny"
            ELSE "Allow"

\* C15: every call of report_firstAllowWriteCheck sends one report,
\* whatever the cache holds and whatever was asked before; the status is
\* Denied if the path exists, as a directory too, and Allowed otherwise; the
\* result returned carries the same decision.
C15_DeniedIfExists ==
    [][IsFirstAllowWriteCheck =>
          /\ SendsOneReport
          /\ sent'.report.status =
                 IF call'.mode # 0
                 THEN FileAccessStatus_Denied
                 ELSE FileAccessStatus_Allowed
          /\ ResultAsReported]_vars

\* C15 as amended: the status is Denied if the path exists and is not a
\* directory, and Allowed if it does not exist or is a directory.
C15_DeniedIfFileExists ==
    [][IsFirstAllowWriteCheck =>
          /\ SendsOneReport
          /\ sent'.report.status =
                 IF call'.mode # 0 /\ ~S_ISDIR(call'.mode)
                 THEN FileAccessStatus_Denied
                 ELSE FileAccessStatus_Allowed
          /\ sent'.report.isDirectory = (IF S_ISDIR(call'.mode) THEN 1 ELSE 0)
          /\ ResultAsReported]_vars

\* the write of /a was reported and cached; the first allow-write check of
\* /a, a regular file, then sent a report with the status Denied and
\* returned Deny
C15_Witness ==
    /\ call.op = "report_firstAllowWriteCheck"
    /\ call.path = <<"/", "a">>
    /\ call.mode = S_IFREG + 420
    /\ call.returned
    /\ call.result.action = "Deny"
    /\ "WRITE" \in DOMAIN cache_
    /\ <<"/", "a">> \in cache_["WRITE"]
    /\ sent.outcome = "true"
    /\ sent.report.status = FileAccessStatus_Denied

(***************************************************************************)
(* Properties of the cache lock under concurrent calls of report_access    *)
(***************************************************************************)
\* cacheMtx_ is owned by thread t exactly while t is in the critical
\* section of a call of IsCacheHit that acquired it: one owner at a time,
\* and no owner among the calls that have returned or not yet locked
OwnedInCriticalSectionOnly ==
    /\ \A t \in Threads :
          cacheMtx_ = t <=> (th[t].pc = "critical" /\ th[t].locked)
    /\ \A t \in Threads : th[t].pc = "critical" => th[t].locked
    /\ Cardinality({t \in Threads : th[t].pc = "critical"}) <= 1

\* a call of report_access does not own cacheMtx_ when it reaches
\* HandleEvent; a handler's call of report_access reaches HandleEvent
\* without having acquired cacheMtx_ (the call it interrupted still owns it)
NotOwnedAtHandleEvent ==
    \A t \in Threads :
        /\ ra.frames[t].pc = "HandleEvent" => cacheMtx_ # t
        /\ ra.frames[t].engine # "no" => ra.frames[t].mutexThen # t
        /\ ra.frames[t].handler.engine # "no" =>
               ra.frames[t].handler.how \in {"early", "timeout"}

\* cache_ is changed only by the owner of cacheMtx_, in its critical section
ChangedByOwnerOnly ==
    cache_' # cache_ =>
        \E t \in Threads : /\ cacheMtx_ = t
                           /\ th[t].pc = "critical"
                           /\ th'[t].pc = "done"
                           /\ cacheMtx_' = NoThread

\* no key and no path leaves cache_
CacheGrows ==
    \A k \in DOMAIN cache_ :
        k \in DOMAIN cache_' /\ cache_[k] \subseteq cache_'[k]

Cacheable(t) ==
    /\ ra.frames[t].event \notin {"FORK", "EXEC", "EXIT"}
    /\ Len(ra.frames[t].secondPath) = 0

\* the call of thread t is about to return sNotChecked and HandleEvent was
\* not called
Suppressed(t) ==
    /\ ra.frames[t].result = sNotChecked
    /\ ra.frames[t].engine = "no"

\* C22: after a first report_access(kind, p) of a cacheable kind has
\* returned, every later report_access(kind, p) returns sNotChecked without
\* a call of HandleEvent, whatever the verdict of the first and whether
\* mediation is on; Deny is returned at most once for a key and a path.
C22_RepeatSuppressed ==
    \A t \in Threads :
        (ra.frames[t].pc = "done" /\ Cacheable(t)) =>
            /\ ra.frames[t].repeat => Suppressed(t)
            /\ ra.frames[t].result = "Deny" =>
                   <<ra.frames[t].event, ra.frames[t].path>> \notin ra.denied

\* C22 as amended: the pair is in the cache before HandleEvent is reached
\* if the critical section of the call ran before the disposal; a call
\* whose critical section ran after that of an earlier call with the same
\* event and path returns sNotChecked without a call of HandleEvent;
\* HandleEvent is reached only by the first such call and by calls that
\* did not run the critical section.
C22_RepeatSuppressedIfChecked ==
    \A t \in Threads :
        (ra.frames[t].pc \in {"HandleEvent", "done"} /\ Cacheable(t)) =>
            /\ ra.frames[t].checked =>
                   /\ EventKey(ra.frames[t].event) \in DOMAIN cache_
                   /\ ra.frames[t].path \in cache_[EventKey(ra.frames[t].event)]
            /\ (ra.frames[t].checked /\ ~ra.frames[t].fresh) =>
                   /\ ra.frames[t].pc = "done"
                   /\ Suppressed(t)
            /\ (ra.frames[t].pc = "HandleEvent" \/ ra.frames[t].engine # "no") =>
                   (~ra.frames[t].checked \/ ra.frames[t].fresh)

\* WRITE of /p was reported and denied; a later report of it ran the
\* critical section and is about to return sNotChecked, HandleEvent not
\* called, with mediation on
C22_Witness ==
    /\ env.enabled
    /\ <<"WRITE", "/p">> \in ra.denied
    /\ \E t \in Threads :
          /\ ra.frames[t].pc = "done"
          /\ ra.frames[t].event = "WRITE"
          /\ ra.frames[t].secondPath = ""
          /\ ra.frames[t].repeat
          /\ ra.frames[t].checked
          /\ ~ra.frames[t].fresh
          /\ Suppressed(t)

====
